---- MODULE Spec2Model ----
(***************************************************************************)
(* Model of the FirmwareInstaller protocol engines:                        *)
(*   avr_isp/stk500v2.py  Stk500v2 (sendMessage, recvMessage, entryISP,    *)
(*                        leaveISP, sendISP, writeFlash, verifyFlash)      *)
(*   avr_isp/intelHex.py  readHex                                          *)
(*   avr_isp/chipDB.py    avrChipDB, getChipFromDB                         *)
(* Bytes are integers 0..255, byte strings are sequences of bytes, a text  *)
(* line is a sequence of one-character strings.                            *)
(***************************************************************************)
EXTENDS Integers, Sequences, FiniteSets, TLC

VARIABLES
    seq,        \* Stk500v2.seq
    pc,         \* position of the serial session / of the call in progress
    op,         \* the Stk500v2 method in progress and its step
    request,    \* sendMessage's argument `data` of the call in progress
    wire,       \* frames written to the port and not yet taken by the device
    rx,         \* bytes waiting in the port's input buffer
    state,      \* recvMessage: state
    checksum,   \* recvMessage: checksum
    msgSize,    \* recvMessage: msgSize
    data,       \* recvMessage: data
    ret,        \* what the call in progress returned or raised
    stream,     \* the input a receiver run was started on (garbage, seq, payload)
    lines,      \* readHex: the lines of the file
    lineNo,     \* readHex: the number of lines read so far
    hexData,    \* readHex: data
    extraAddr,  \* readHex: extraAddr
    hexRet,     \* readHex: what it returned or raised
    sig,        \* getChipFromDB: sig
    chipNo,     \* getChipFromDB: the number of table entries looked at
    chipRet,    \* getChipFromDB: what it returned
    chip,       \* Stk500v2.chip
    flashData,  \* writeFlash / verifyFlash: flashData
    flashPc,    \* writeFlash / verifyFlash: position
    flashI,     \* writeFlash / verifyFlash: i
    progress,   \* the emissions of progressCallback, in order
    sent,       \* the payloads handed to sendMessage by the method in progress,
                \* in order, a run of equal payloads kept as one entry
    flashMem,   \* the device's flash memory, as its read commands report it
    dfuIn,      \* pydfu: the arguments and the device of the session in progress
    dfuPc,      \* pydfu: position of the session
    dfuL,       \* pydfu: the locals of write_elements and write_memory
    usb,        \* pydfu: the control transfers made on __dev, in order
    dfuProgress, \* pydfu: the calls of progress(addr, offset, size), in order
    dfuRet,     \* pydfu: what the session returned or raised
    dfuFile,    \* read_dfu_file: the bytes of the file
    dfuParse,   \* read_dfu_file: its locals and its result
    layoutStr,  \* get_memory_layout: mem_layout_str
    layoutSt,   \* get_memory_layout: its locals and its result
    thread,     \* stk500v2Thread / DFUTool: the worker thread object and its position
    transport,  \* the serial port or the USB device of the worker thread
    emitted,    \* the emissions of stateCallback, in order
    win,        \* mainWindow: its task, its widgets and its timers
    tasks       \* the worker threads that installFile has created, in order

hexVars == <<lines, lineNo, hexData, extraAddr, hexRet>>

chipVars == <<sig, chipNo, chipRet>>

flashVars == <<chip, flashData, flashPc, flashI, progress, sent, flashMem>>

dfuVars == <<dfuIn, dfuPc, dfuL, usb, dfuProgress, dfuRet,
             dfuFile, dfuParse, layoutStr, layoutSt>>

serialVars == <<seq, pc, op, request, wire, rx, state, checksum, msgSize, data, ret, stream>>

----------------------------------------------------------------------------
(* Bounds of the model. *)

MaxGarbage == 3
MaxPayload == 2

(* Program constants. *)

MESSAGE_START == 27
TOKEN == 14

----------------------------------------------------------------------------
(* Bytes. *)

Byte == 0..255

RECURSIVE Xor(_, _)
Xor(a, b) ==
    IF a = 0 THEN b
    ELSE IF b = 0 THEN a
    ELSE (((a % 2) + (b % 2)) % 2) + 2 * Xor(a \div 2, b \div 2)

(* checksum = 0; for c in message: checksum ^= c.  The fold is evaluated by  *)
(* halves (^ is associative) to keep the evaluation shallow on long frames. *)
RECURSIVE XorAll(_)
XorAll(s) ==
    IF s = <<>> THEN 0
    ELSE IF Len(s) = 1 THEN Xor(0, s[1])
    ELSE LET h == Len(s) \div 2
         IN  Xor(XorAll(SubSeq(s, 1, h)), XorAll(SubSeq(s, h + 1, Len(s))))

SeqsUpTo(S, n) == UNION {[1..k -> S] : k \in 0..n}

appVars == <<thread, transport, emitted, win, tasks>>

nonSerialVars == <<hexVars, chipVars, flashVars, dfuVars, appVars>>

nonHexVars == <<serialVars, chipVars, flashVars, dfuVars, appVars>>

nonChipVars == <<serialVars, hexVars, flashVars, dfuVars, appVars>>

nonDfuVars == <<serialVars, hexVars, chipVars, flashVars, appVars>>

vars == <<serialVars, hexVars, chipVars, flashVars, dfuVars, appVars>>

NoRet == [kind |-> "none", value |-> <<>>]
IspError(msg) == [kind |-> "IspError", value |-> msg]
Returned(v) == [kind |-> "return", value |-> v]

(* avrChipDB, chipDB.py lines 12-23, in the order of the dictionary. *)
avrChipDB == <<
    [name |-> "ATMega1280", signature |-> <<30, 151, 3>>, pageSize |-> 128, pageCount |-> 512],
    [name |-> "ATMega2560", signature |-> <<30, 152, 1>>, pageSize |-> 128, pageCount |-> 1024] >>

(* No lookup is in progress. *)
NoChip ==
    /\ sig = <<>>
    /\ chipNo = 0
    /\ chipRet = [kind |-> "none"]

(* No flash is being written. *)
NoFlash ==
    /\ chip = avrChipDB[1]
    /\ flashData = [len |-> 0, mem |-> <<>>]
    /\ flashPc = "idle"
    /\ flashI = 0
    /\ progress = <<>>
    /\ sent = <<>>
    /\ flashMem = [len |-> 0, mem |-> <<>>]

(* No DFU session, file or descriptor is being worked on. *)
NoApp ==
    /\ thread = <<>>
    /\ transport = "none"
    /\ emitted = <<>>
    /\ win = <<>>
    /\ tasks = <<>>

NoDfu ==
    /\ dfuIn = <<>>
    /\ dfuPc = "idle"
    /\ dfuL = <<>>
    /\ usb = <<>>
    /\ dfuProgress = <<>>
    /\ dfuRet = [kind |-> "none"]
    /\ dfuFile = <<>>
    /\ dfuParse = <<>>
    /\ layoutStr = <<>>
    /\ layoutSt = <<>>

(* No file is being read. *)
NoHex ==
    /\ lines = <<>>
    /\ lineNo = 0
    /\ hexData = [len |-> 0, mem |-> <<>>]
    /\ extraAddr = 0
    /\ hexRet = NoRet

----------------------------------------------------------------------------
(* Stk500v2.sendMessage, lines 115-121: the frame built for payload d under *)
(* sequence number s.                                                       *)

(* struct.pack(">BBHB", 0x1B, self.seq, len(data), 0x0E); len(data) is at   *)
(* most 65535 for every payload of the model.                               *)
Header(s, d) == <<MESSAGE_START, s, Len(d) \div 256, Len(d) % 256, TOKEN>>

MessageChecksumOfPayloadOnly(message) == XorAll(SubSeq(message, 6, Len(message)))

MessageChecksum(message) == XorAll(message)

BuildMessage(s, d) ==
    LET message == Header(s, d) \o d
    IN  message \o <<MessageChecksum(message)>>

----------------------------------------------------------------------------
(* Stk500v2.recvMessage, lines 134-172: one iteration of the while loop on  *)
(* the byte b just read.  The locals are state, checksum, msgSize, data.    *)

RecvLocals == [state |-> state, checksum |-> checksum, msgSize |-> msgSize,
               data |-> data, done |-> FALSE]

(* a receiver that returns the payload without looking at the checksum *)
RecvStepReturnsUnchecked(l, b) ==
    LET c == Xor(l.checksum, b)
        m == [l EXCEPT !.checksum = c]
    IN  CASE l.state = "Start" ->
                IF b = MESSAGE_START
                THEN [m EXCEPT !.state = "GetSeq", !.checksum = MESSAGE_START]
                ELSE m
          [] l.state = "GetSeq" -> [m EXCEPT !.state = "MsgSize1"]
          [] l.state = "MsgSize1" -> [m EXCEPT !.msgSize = b * 256, !.state = "MsgSize2"]
          [] l.state = "MsgSize2" ->
                \* msgSize |= b : the low byte of msgSize is 0 here
                [m EXCEPT !.msgSize = l.msgSize + b, !.state = "Token"]
          [] l.state = "Token" ->
                IF b # TOKEN
                THEN [m EXCEPT !.state = "Start"]
                ELSE [m EXCEPT !.state = "Data", !.data = <<>>]
          [] l.state = "Data" ->
                LET d == Append(l.data, b)
                IN  [m EXCEPT !.data = d,
                              !.state = IF Len(d) = l.msgSize THEN "Checksum" ELSE "Data"]
          [] l.state = "Checksum" ->
                [m EXCEPT !.done = TRUE]

(* the loop body of a receiver that takes only the frames numbered 1 *)
RecvStepExpectsSeq(l, b) ==
    LET c == Xor(l.checksum, b)
        m == [l EXCEPT !.checksum = c]
    IN  CASE l.state = "Start" ->
                IF b = MESSAGE_START
                THEN [m EXCEPT !.state = "GetSeq", !.checksum = MESSAGE_START]
                ELSE m
          [] l.state = "GetSeq" ->
                IF b # 1 THEN [m EXCEPT !.state = "Start"] ELSE [m EXCEPT !.state = "MsgSize1"]
          [] l.state = "MsgSize1" -> [m EXCEPT !.msgSize = b * 256, !.state = "MsgSize2"]
          [] l.state = "MsgSize2" -> [m EXCEPT !.msgSize = l.msgSize + b, !.state = "Token"]
          [] l.state = "Token" ->
                IF b # TOKEN
                THEN [m EXCEPT !.state = "Start"]
                ELSE [m EXCEPT !.state = "Data", !.data = <<>>]
          [] l.state = "Data" ->
                LET d == Append(l.data, b)
                IN  [m EXCEPT !.data = d,
                              !.state = IF Len(d) = l.msgSize THEN "Checksum" ELSE "Data"]
          [] l.state = "Checksum" ->
                IF c # 0
                THEN [m EXCEPT !.state = "Start"]
                ELSE [m EXCEPT !.done = TRUE]

RecvStep(l, b) ==
    LET c == Xor(l.checksum, b)
        m == [l EXCEPT !.checksum = c]
    IN  CASE l.state = "Start" ->
                IF b = MESSAGE_START
                THEN [m EXCEPT !.state = "GetSeq", !.checksum = MESSAGE_START]
                ELSE m
          [] l.state = "GetSeq" -> [m EXCEPT !.state = "MsgSize1"]
          [] l.state = "MsgSize1" -> [m EXCEPT !.msgSize = b * 256, !.state = "MsgSize2"]
          [] l.state = "MsgSize2" ->
                \* msgSize |= b : the low byte of msgSize is 0 here
                [m EXCEPT !.msgSize = l.msgSize + b, !.state = "Token"]
          [] l.state = "Token" ->
                IF b # TOKEN
                THEN [m EXCEPT !.state = "Start"]
                ELSE [m EXCEPT !.state = "Data", !.data = <<>>]
          [] l.state = "Data" ->
                LET d == Append(l.data, b)
                IN  [m EXCEPT !.data = d,
                              !.state = IF Len(d) = l.msgSize THEN "Checksum" ELSE "Data"]
          [] l.state = "Checksum" ->
                IF c # 0
                THEN [m EXCEPT !.state = "Start"]
                ELSE [m EXCEPT !.done = TRUE]

(* recvMessage reads one byte (line 138) and runs the loop body on it. *)
recvByte ==
    /\ pc = "recv"
    /\ rx # <<>>
    /\ LET n == RecvStep(RecvLocals, Head(rx))
       IN  /\ state' = n.state
           /\ checksum' = n.checksum
           /\ msgSize' = n.msgSize
           /\ data' = n.data
           /\ pc' = IF n.done THEN "returned" ELSE "recv"
           /\ ret' = IF n.done THEN Returned(n.data) ELSE ret
    /\ rx' = Tail(rx)
    /\ UNCHANGED <<nonSerialVars, seq, op, request, wire, stream>>

(* Lines 139-143: read returned nothing and waitForReadyRead(20) timed out. *)
recvTimeout ==
    /\ pc = "recv"
    /\ rx = <<>>
    /\ pc' = "raised"
    /\ ret' = IspError("Serial read timeout")
    /\ UNCHANGED <<nonSerialVars, seq, op, request, wire, rx, state, checksum, msgSize, data, stream>>

----------------------------------------------------------------------------
(* The receiver alone: recvMessage started on a byte stream made of garbage *)
(* followed by one frame built by BuildMessage, then silence.               *)

GarbageBytes == {0, 5, TOKEN, MESSAGE_START}
PayloadBytes == {5, TOKEN, MESSAGE_START}
FrameSeqs == {1, MESSAGE_START}

InitRecv ==
    /\ stream \in [garbage : SeqsUpTo(GarbageBytes, MaxGarbage),
                   seq : FrameSeqs,
                   payload : SeqsUpTo(PayloadBytes, MaxPayload)]
    /\ rx = stream.garbage \o BuildMessage(stream.seq, stream.payload)
    /\ seq = 1
    /\ pc = "recv"
    /\ op = "recvMessage"
    /\ request = <<>>
    /\ wire = <<>>
    /\ state = "Start"
    /\ checksum = 0
    /\ msgSize = 0
    /\ data = <<>>
    /\ ret = NoRet
    /\ NoHex
    /\ NoChip
    /\ NoFlash
    /\ NoDfu
    /\ NoApp

NextRecv == recvByte \/ recvTimeout

SpecRecv == InitRecv /\ [][NextRecv]_vars

(* C1: garbage followed by one well-formed frame: recvMessage returns       *)
(* exactly that frame's payload, whatever the garbage was.  Stated for the  *)
(* frames with a payload of at least one byte.                              *)
C1_GarbageThenFrameYieldsPayload ==
    (pc \in {"returned", "raised"} /\ stream.payload # <<>>)
        => ret = Returned(stream.payload)

(* Without garbage the frame's payload is what recvMessage returns. *)
CleanFrameYieldsPayload ==
    (pc \in {"returned", "raised"} /\ stream.payload # <<>> /\ stream.garbage = <<>>)
        => ret = Returned(stream.payload)

(* Garbage holding no 0x1B is skipped. *)
GarbageWithoutStartIsSkipped ==
    (/\ pc \in {"returned", "raised"}
     /\ stream.payload # <<>>
     /\ \A k \in 1..Len(stream.garbage) : stream.garbage[k] # MESSAGE_START)
        => ret = Returned(stream.payload)

----------------------------------------------------------------------------
(* Stk500v2.sendMessage, lines 114-132, as steps of the call in progress:   *)
(*   pc = "send"  called, nothing written yet                               *)
(*   pc = "wait"  message written, in waitForReadyRead(100)                 *)
(*   pc = "recv"  in recvMessage                                            *)
(*   pc = "returned" / "raised"  the call has ended, ret tells how          *)

NextSeqWithoutMask(s) == s + 1

(* Line 127: self.seq = (self.seq + 1) & 0xFF *)
NextSeq(s) == (s + 1) % 256

(* Lines 115-127: the message is written and the counter advanced. *)
sendWrite ==
    /\ pc = "send"
    /\ wire' = Append(wire, BuildMessage(seq, request))
    /\ seq' = NextSeq(seq)
    /\ pc' = "wait"
    /\ UNCHANGED <<nonSerialVars, op, request, rx, state, checksum, msgSize, data, ret, stream>>

(* Lines 122-126: write or flush raised. *)
sendWriteFail ==
    /\ pc = "send"
    /\ pc' = "raised"
    /\ ret' = IspError("Serial send timeout")
    /\ UNCHANGED <<nonSerialVars, seq, op, request, wire, rx, state, checksum, msgSize, data, stream>>

(* Lines 129-130: a first byte arrived within 100 ms, recvMessage starts    *)
(* (lines 135-136).                                                         *)
sendReady ==
    /\ pc = "wait"
    /\ rx # <<>>
    /\ pc' = "recv"
    /\ state' = "Start"
    /\ checksum' = 0
    /\ UNCHANGED <<nonSerialVars, seq, op, request, wire, rx, msgSize, data, ret, stream>>

sendTimeoutThenResend ==
    /\ pc = "wait"
    /\ rx = <<>>
    /\ wire = <<>>
    /\ wire' = Append(wire, BuildMessage(seq, request))
    /\ UNCHANGED <<nonSerialVars, seq, pc, op, request, rx, state, checksum, msgSize, data, ret, stream>>

(* Lines 131-132: nothing arrived within 100 ms. *)
sendTimeout ==
    /\ pc = "wait"
    /\ rx = <<>>
    /\ wire = <<>>
    /\ pc' = "raised"
    /\ ret' = IspError("Serial recv timeout")
    /\ UNCHANGED <<nonSerialVars, seq, op, request, wire, rx, state, checksum, msgSize, data, stream>>

----------------------------------------------------------------------------
(* The device at the other end of the port.  It takes a written frame at    *)
(* once and answers it in full, answers it with a failure status, answers   *)
(* with a frame that stops short, or does not answer.  An answer carries    *)
(* the sequence byte of the frame it answers.                               *)

SIGN_ON == <<65, 86, 82, 73, 83, 80, 95, 50>>    \* "AVRISP_2"

OkAnswer(d) ==
    IF d = <<>> THEN <<0, 0>>
    ELSE IF d[1] = 1 THEN <<1, 0, 8>> \o SIGN_ON
    ELSE IF d[1] = 29 THEN <<29, 0, 255, d[6], 0, 30, 0>>
    ELSE <<d[1], 0>>

(* an answer whose status byte is not 0x00 (0xC0, command failed) *)
FailAnswer(d) == <<(IF d = <<>> THEN 0 ELSE d[1]), 192>>

FramePayload(f) == SubSeq(f, 6, Len(f) - 1)

Answers(f) ==
    LET ok == BuildMessage(f[2], OkAnswer(FramePayload(f)))
    IN  { ok,
          BuildMessage(f[2], FailAnswer(FramePayload(f))),
          SubSeq(ok, 1, Len(ok) - 1) }

deviceAnswer ==
    /\ pc = "wait"
    /\ wire # <<>>
    /\ \E a \in Answers(Head(wire)) : rx' = rx \o a
    /\ wire' = Tail(wire)
    /\ UNCHANGED <<nonSerialVars, seq, pc, op, request, state, checksum, msgSize, data, ret, stream>>

deviceSilent ==
    /\ pc = "wait"
    /\ wire # <<>>
    /\ wire' = Tail(wire)
    /\ UNCHANGED <<nonSerialVars, seq, pc, op, request, rx, state, checksum, msgSize, data, ret, stream>>

----------------------------------------------------------------------------
(* One sendMessage round trip, for a sequence value and a payload drawn     *)
(* from bounded sets.                                                       *)

LongPayload(n) == [k \in 1..n |-> (k * 7) % 256]

SendSeqs == {0, 1, MESSAGE_START, 254, 255}
SendBytes == {0, TOKEN, MESSAGE_START, 255}
SendPayloads == SeqsUpTo(SendBytes, MaxPayload)
                    \cup {LongPayload(n) : n \in {255, 256, 266, 300}}

InitSend ==
    /\ seq \in SendSeqs
    /\ request \in SendPayloads
    /\ pc = "send"
    /\ op = "sendMessage"
    /\ wire = <<>>
    /\ rx = <<>>
    /\ state = "Start"
    /\ checksum = 0
    /\ msgSize = 0
    /\ data = <<>>
    /\ ret = NoRet
    /\ stream = [garbage |-> <<>>, seq |-> seq, payload |-> request]
    /\ NoHex
    /\ NoChip
    /\ NoFlash
    /\ NoDfu
    /\ NoApp

NextSend ==
    \/ sendWrite
    \/ sendWriteFail
    \/ sendReady
    \/ sendTimeout
    \/ deviceAnswer
    \/ deviceSilent
    \/ recvByte
    \/ recvTimeout

SpecSend == InitSend /\ [][NextSend]_vars

(* C2: sendMessage writes 0x1B, seq, the payload length as 16-bit           *)
(* big-endian, 0x0E, the payload, and one byte that is the XOR of all the   *)
(* bytes before it.                                                         *)
C2_FrameLayout ==
    (pc = "wait" /\ wire # <<>>) =>
        LET f == wire[Len(wire)]
            n == Len(stream.payload)
        IN  /\ Len(f) = n + 6
            /\ f[1] = 27
            /\ f[2] = stream.seq
            /\ f[3] * 256 + f[4] = n
            /\ f[3] \in Byte /\ f[4] \in Byte
            /\ f[5] = 14
            /\ \A k \in 1..n : f[5 + k] = stream.payload[k]
            /\ f[n + 6] = XorAll(SubSeq(f, 1, n + 5))

C2_Witness ==
    /\ pc = "wait"
    /\ wire # <<>>
    /\ Len(stream.payload) = 300
    /\ stream.seq = 255

----------------------------------------------------------------------------
(* The methods of Stk500v2 that call sendMessage, on an open port.  op      *)
(* names the method in progress; pc = "idle" between two methods.           *)

(* a[i:j] of Python for 0 <= i <= j *)
Slice(s, i, j) == SubSeq(s, i + 1, IF j < Len(s) THEN j ELSE Len(s))

ENTER_PROGMODE == <<16, 200, 100, 25, 32, 0, 83, 3, 172, 83, 0, 0>>
LEAVE_PROGMODE == <<17>>
ReadSignature == {<<48, 0, 0, 0>>}

(* The locals of sendMessage and recvMessage do not outlive the call. *)
NoLocals ==
    /\ state' = "Start"
    /\ checksum' = 0
    /\ msgSize' = 0
    /\ data' = <<>>

(* The method in progress calls sendMessage(d). *)
Call(method, d) ==
    /\ op' = method
    /\ request' = d
    /\ pc' = "send"
    /\ ret' = NoRet
    /\ NoLocals

(* The method in progress ends: it returns or raises r. *)
Finish(r) ==
    /\ op' = "none"
    /\ pc' = "idle"
    /\ ret' = r
    /\ request' = <<>>
    /\ NoLocals

(* entryISP, lines 52-60: the counter is reset, the buffers are cleared and *)
(* the sign-on command is sent.                                             *)
entryISP ==
    /\ pc = "idle"
    /\ seq' = 1
    /\ rx' = <<>>
    /\ wire' = <<>>
    /\ Call("entryISP1", <<1>>)
    /\ UNCHANGED <<nonSerialVars, stream>>

(* entryISP, lines 60-64: the sign-on answer is checked and the command to  *)
(* enter programming mode is sent.                                          *)
entryISPSignOn ==
    /\ op = "entryISP1"
    /\ pc = "returned"
    /\ IF Slice(ret.value, 3, Len(ret.value)) # SIGN_ON
       THEN Finish(IspError("Unkonwn bootloaders!"))
       ELSE Call("entryISP2", ENTER_PROGMODE)
    /\ UNCHANGED <<nonSerialVars, seq, wire, rx, stream>>

(* entryISP, lines 64-65. *)
entryISPEntered ==
    /\ op = "entryISP2"
    /\ pc = "returned"
    /\ IF ret.value # <<16, 0>>
       THEN Finish(IspError("Failed to enter programming mode!"))
       ELSE Finish(Returned(<<>>))
    /\ UNCHANGED <<nonSerialVars, seq, wire, rx, stream>>

(* leaveISP, lines 68-69: the command is sent. *)
leaveISP ==
    /\ pc = "idle"
    /\ Call("leaveISP", LEAVE_PROGMODE)
    /\ UNCHANGED <<nonSerialVars, seq, wire, rx, stream>>

(* leaveISP, lines 69-70. *)
leaveISPLeft ==
    /\ op = "leaveISP"
    /\ pc = "returned"
    /\ IF ret.value # <<17, 0>>
       THEN Finish(IspError("Failed to leave programming mode!"))
       ELSE Finish(Returned(<<>>))
    /\ UNCHANGED <<nonSerialVars, seq, wire, rx, stream>>

(* sendISP, line 76. *)
sendISP ==
    /\ pc = "idle"
    /\ \E d \in ReadSignature : Call("sendISP", <<29, 4, 4, 0>> \o d)
    /\ UNCHANGED <<nonSerialVars, seq, wire, rx, stream>>

(* sendISP, line 77. *)
sendISPReturn ==
    /\ op = "sendISP"
    /\ pc = "returned"
    /\ Finish(Returned(Slice(ret.value, 2, 6)))
    /\ UNCHANGED <<nonSerialVars, seq, wire, rx, stream>>

(* sendMessage raised: the error leaves the method that called it. *)
methodRaise ==
    /\ op \in {"entryISP1", "entryISP2", "leaveISP", "sendISP"}
    /\ pc = "raised"
    /\ Finish(ret)
    /\ UNCHANGED <<nonSerialVars, seq, wire, rx, stream>>

(* Stk500v2.__init__, lines 24-28, on a port that is open. *)
InitSession ==
    /\ seq = 1
    /\ pc = "idle"
    /\ op = "none"
    /\ request = <<>>
    /\ wire = <<>>
    /\ rx = <<>>
    /\ state = "Start"
    /\ checksum = 0
    /\ msgSize = 0
    /\ data = <<>>
    /\ ret = NoRet
    /\ stream = [garbage |-> <<>>, seq |-> 0, payload |-> <<>>]
    /\ NoHex
    /\ NoChip
    /\ NoFlash
    /\ NoDfu
    /\ NoApp

NextSession ==
    \/ entryISP
    \/ entryISPSignOn
    \/ entryISPEntered
    \/ leaveISP
    \/ leaveISPLeft
    \/ sendISP
    \/ sendISPReturn
    \/ methodRaise
    \/ sendWrite
    \/ sendWriteFail
    \/ sendReady
    \/ sendTimeout
    \/ deviceAnswer
    \/ deviceSilent
    \/ recvByte
    \/ recvTimeout

SpecSession == InitSession /\ [][NextSession]_vars

Written == pc = "send" /\ pc' = "wait"

(* C3: the sequence counter stays in 0..255; each sendMessage that wrote    *)
(* its request advances it by one modulo 256 (255 wraps to 0), whether or   *)
(* not an answer follows; entryISP resets it to 1; nothing else changes it. *)
C3_SeqCounter ==
    [][/\ seq' \in 0..255
       /\ Written => seq' = (IF seq = 255 THEN 0 ELSE seq + 1)
       /\ (op' = "entryISP1" /\ pc = "idle") => seq' = 1
       /\ seq' # seq => (Written \/ (op' = "entryISP1" /\ pc = "idle"))]_vars

(* the counter has wrapped from 255 to 0 and the answer then fails to come *)
C3_Witness ==
    /\ seq = 0
    /\ pc = "raised"
    /\ ret = IspError("Serial recv timeout")

(* C4: within one sendMessage call the request is written once, at the      *)
(* step from "send" to "wait", and never again; when the port is silent     *)
(* (nothing to read, nothing on its way) the call ends with IspError.       *)
C4_WrittenOnceSilenceIsFatal ==
    [][/\ (wire' # wire /\ Len(wire') >= Len(wire) /\ pc # "idle")
            => (Written /\ wire' = Append(wire, BuildMessage(seq, request)))
       /\ pc = "wait" => pc' \in {"wait", "recv", "raised"}
       /\ pc = "recv" => pc' \in {"recv", "returned", "raised"}
       /\ (pc \in {"wait", "recv"} /\ rx = <<>> /\ wire = <<>>)
            => (/\ pc' = "raised"
                /\ ret'.kind = "IspError"
                /\ wire' = wire
                /\ seq' = seq)]_vars

(* the answer stopped in the middle of a frame *)
C4_Witness ==
    /\ pc = "raised"
    /\ ret = IspError("Serial read timeout")
    /\ state = "Checksum"
    /\ op = "sendISP"

----------------------------------------------------------------------------
(* intelHex.readHex.  A line is a sequence of characters.  An image (the    *)
(* list `data`) is kept as its length and its non-zero bytes: index i of    *)
(* the list, 0 <= i < len, holds mem[i] when i is in DOMAIN mem and 0       *)
(* otherwise.                                                               *)

UpperDigits == <<"0", "1", "2", "3", "4", "5", "6", "7", "8", "9",
                 "A", "B", "C", "D", "E", "F">>
LowerDigits == <<"0", "1", "2", "3", "4", "5", "6", "7", "8", "9",
                 "a", "b", "c", "d", "e", "f">>

IsHexDigit(c) == \E k \in 1..16 : UpperDigits[k] = c \/ LowerDigits[k] = c

HexDigitValue(c) == (CHOOSE k \in 1..16 : UpperDigits[k] = c \/ LowerDigits[k] = c) - 1

(* str.strip() for the white space of the model, the blank *)
RECURSIVE StripLeft(_)
StripLeft(t) == IF t # <<>> /\ Head(t) = " " THEN StripLeft(Tail(t)) ELSE t

RECURSIVE StripRight(_)
StripRight(t) ==
    IF t # <<>> /\ t[Len(t)] = " " THEN StripRight(SubSeq(t, 1, Len(t) - 1)) ELSE t

Strip(t) == StripLeft(StripRight(t))

RECURSIVE DigitsValue(_)
DigitsValue(t) ==
    IF t = <<>> THEN 0
    ELSE 16 * DigitsValue(SubSeq(t, 1, Len(t) - 1)) + HexDigitValue(t[Len(t)])

ValueError == -1

(* int(t, 16): white space around the digits is dropped, what is left must  *)
(* be one or more hexadecimal digits; otherwise int raises ValueError.      *)
IntHex(t) ==
    LET u == Strip(t)
    IN  IF u = <<>> \/ \E k \in 1..Len(u) : ~IsHexDigit(u[k])
        THEN ValueError
        ELSE DigitsValue(u)

(* int(line[i * 2 + 1:i * 2 + 3], 16): byte i of the line *)
LineByte(line, i) == IntHex(Slice(line, i * 2 + 1, i * 2 + 3))

(* Lines 32-35: the sum of the recLen + 5 bytes of the line, masked. *)
RECURSIVE SumBytes(_, _)
SumBytes(line, n) == IF n = 0 THEN 0 ELSE SumBytes(line, n - 1) + LineByte(line, n - 1)

LineCheckSumWithoutLastByte(line, recLen) == SumBytes(line, recLen + 4) % 256

LineCheckSum(line, recLen) == SumBytes(line, recLen + 5) % 256

At(image, i) == IF i \in DOMAIN image.mem THEN image.mem[i] ELSE 0

(* Lines 40-43: the list is extended with zeros to addr + recLen and the    *)
(* recLen bytes of the line are stored from index addr.                     *)
StoreRecord(image, line, addr, recLen) ==
    LET new(i) == IF addr <= i /\ i < addr + recLen
                  THEN IntHex(Slice(line, (i - addr) * 2 + 9, (i - addr) * 2 + 11))
                  ELSE At(image, i)
        touched == DOMAIN image.mem \cup addr..(addr + recLen - 1)
    IN  [len |-> IF image.len < addr + recLen THEN addr + recLen ELSE image.len,
         mem |-> [i \in {j \in touched : new(j) # 0} |-> new(i)]]

SegmentBaseAdded(base, line) == base + IntHex(Slice(line, 9, 13)) * 16

(* Line 47 *)
SegmentBase(base, line) == IntHex(Slice(line, 9, 13)) * 16

(* Line 51; the values of the model stay below 2^15, where value << 16 is  *)
(* value * 65536 in the integers of the model checker too.                *)
LinearBase(base, line) == IntHex(Slice(line, 9, 13)) * 65536

Raise(kind, msg) == [kind |-> kind, value |-> msg]

Continue(image, base) == [kind |-> "none", data |-> image, extraAddr |-> base]

(* Lines 44-45: End Of File record: pass *)
RecordEOF(image, base) == Continue(image, base)

(* Lines 24-55: the body of the loop on one line of the file, with data =   *)
(* image and extraAddr = base.                                              *)
ReadLine(raw, image, base) ==
    LET line == Strip(raw)
        recLen == IntHex(Slice(line, 1, 3))
        addr16 == IntHex(Slice(line, 3, 7))
        recType == IntHex(Slice(line, 7, 9))
        addr == addr16 + base
    IN  IF line = <<>> THEN Raise("IndexError", "string index out of range")
        ELSE IF line[1] # ":" THEN Raise("formatError", "Hex file must start with ':'")
        ELSE IF recLen = ValueError \/ addr16 = ValueError \/ recType = ValueError
             THEN Raise("ValueError", "invalid literal for int() with base 16")
        ELSE IF Len(line) # recLen * 2 + 11
             THEN Raise("formatError", "Length error in hex file")
        ELSE IF \E i \in 0..(recLen + 4) : LineByte(line, i) = ValueError
             THEN Raise("ValueError", "invalid literal for int() with base 16")
        ELSE IF LineCheckSum(line, recLen) # 0
             THEN Raise("formatError", "Checksum error in hex file")
        ELSE CASE recType = 0 -> Continue(StoreRecord(image, line, addr, recLen), base)
               [] recType = 1 -> RecordEOF(image, base)
               [] recType = 2 ->
                    IF IntHex(Slice(line, 9, 13)) = ValueError
                    THEN Raise("ValueError", "invalid literal for int() with base 16")
                    ELSE Continue(image, SegmentBase(base, line))
               [] recType = 3 -> Raise("formatError", "Dont support record type 03")
               [] recType = 4 ->
                    IF IntHex(Slice(line, 9, 13)) = ValueError
                    THEN Raise("ValueError", "invalid literal for int() with base 16")
                    ELSE Continue(image, LinearBase(base, line))
               [] recType = 5 -> Raise("formatError", "Dont support record type 05")
               [] OTHER -> Continue(image, base)

(* One iteration of the loop of line 23. *)
readHexLine ==
    /\ hexRet.kind = "none"
    /\ lineNo < Len(lines)
    /\ LET r == ReadLine(lines[lineNo + 1], hexData, extraAddr)
       IN  /\ lineNo' = lineNo + 1
           /\ hexData' = IF r.kind = "none" THEN r.data ELSE hexData
           /\ extraAddr' = IF r.kind = "none" THEN r.extraAddr ELSE extraAddr
           /\ hexRet' = IF r.kind = "none" THEN hexRet ELSE r
    /\ UNCHANGED <<nonHexVars, lines>>

(* Lines 56-57: the file is exhausted. *)
readHexReturn ==
    /\ hexRet.kind = "none"
    /\ lineNo = Len(lines)
    /\ hexRet' = Returned(hexData)
    /\ UNCHANGED <<nonHexVars, lines, lineNo, hexData, extraAddr>>

----------------------------------------------------------------------------
(* readHex on the files of at most MaxLines lines taken from HexLines.      *)

MaxLines == 3

HexByte(b) == <<UpperDigits[(b \div 16) + 1], UpperDigits[(b % 16) + 1]>>

RECURSIVE HexText(_)
HexText(bytes) == IF bytes = <<>> THEN <<>> ELSE HexByte(Head(bytes)) \o HexText(Tail(bytes))

RECURSIVE Sum(_)
Sum(bytes) == IF bytes = <<>> THEN 0 ELSE Head(bytes) + Sum(Tail(bytes))

RecordBytes(addr, type, payload) ==
    <<Len(payload), addr \div 256, addr % 256, type>> \o payload

(* the line of a record, its last byte being the checksum plus `off` *)
RecordLine(addr, type, payload, off) ==
    LET bytes == RecordBytes(addr, type, payload)
    IN  <<":">> \o HexText(bytes \o <<(512 - (Sum(bytes) % 256) + off) % 256>>)

DataAB == RecordLine(0, 0, <<17, 34>>, 0)
DataC == RecordLine(1, 0, <<51>>, 0)
DataEmpty0 == RecordLine(0, 0, <<>>, 0)
DataEmpty5 == RecordLine(5, 0, <<>>, 0)
EndOfFile == RecordLine(0, 1, <<>>, 0)
Segment1 == RecordLine(0, 2, <<0, 1>>, 0)
Linear1 == RecordLine(0, 4, <<0, 1>>, 0)
Linear0 == RecordLine(0, 4, <<0, 0>>, 0)
StartSegment == RecordLine(0, 3, <<0, 0, 0, 0>>, 0)
Unknown6 == RecordLine(0, 6, <<>>, 0)
BadDataAB == RecordLine(0, 0, <<17, 34>>, 1)
BadDataEmpty0 == RecordLine(0, 0, <<>>, 1)
BadEndOfFile == RecordLine(0, 1, <<>>, 255)
NoColon == Tail(EndOfFile)

HexLines == {DataAB, DataC, DataEmpty0, DataEmpty5, EndOfFile, Segment1, Linear1,
             Linear0, StartSegment, Unknown6, BadDataAB, BadDataEmpty0, BadEndOfFile,
             NoColon}

NoSerial ==
    /\ seq = 1
    /\ pc = "idle"
    /\ op = "none"
    /\ request = <<>>
    /\ wire = <<>>
    /\ rx = <<>>
    /\ state = "Start"
    /\ checksum = 0
    /\ msgSize = 0
    /\ data = <<>>
    /\ ret = NoRet
    /\ stream = [garbage |-> <<>>, seq |-> 0, payload |-> <<>>]

(* Lines 20-22 *)
InitHex ==
    /\ lines \in SeqsUpTo(HexLines, MaxLines)
    /\ lineNo = 0
    /\ hexData = [len |-> 0, mem |-> <<>>]
    /\ extraAddr = 0
    /\ hexRet = NoRet
    /\ NoSerial
    /\ NoChip
    /\ NoFlash
    /\ NoDfu
    /\ NoApp

NextHex == readHexLine \/ readHexReturn

SpecHex == InitHex /\ [][NextHex]_vars

(* For the properties below: a record as the Intel HEX format defines it,   *)
(* read off a line: byte k of the line (k = 1 is the length) and the        *)
(* fields.                                                                  *)
PairValue(line, k) == 16 * HexDigitValue(line[2 * k]) + HexDigitValue(line[2 * k + 1])

RECURSIVE PairSum(_, _)
PairSum(line, n) == IF n = 0 THEN 0 ELSE PairSum(line, n - 1) + PairValue(line, n)

Shaped(line) ==
    /\ Len(line) >= 11
    /\ Len(line) % 2 = 1
    /\ line[1] = ":"
    /\ \A k \in 2..Len(line) : IsHexDigit(line[k])
    /\ Len(line) = 11 + 2 * PairValue(line, 1)

BadSum(line) == Shaped(line) /\ PairSum(line, (Len(line) - 1) \div 2) % 256 # 0

ValidRecord(line) == Shaped(line) /\ PairSum(line, (Len(line) - 1) \div 2) % 256 = 0

RecLen(line) == PairValue(line, 1)
RecAddr(line) == 256 * PairValue(line, 2) + PairValue(line, 3)
RecType(line) == PairValue(line, 4)
RecByte(line, k) == PairValue(line, 5 + k)
RecValue(line) == 256 * RecByte(line, 0) + RecByte(line, 1)

(* the line the step just taken has read *)
ThisLine == lines[lineNo + 1]
ReadsLine == hexRet.kind = "none" /\ lineNo' = lineNo + 1

(* C5: a line whose bytes do not sum to 0 modulo 256 makes readHex fail     *)
(* with formatError, and no image is returned for a file that holds one.    *)
C5_BadChecksumIsFormatError ==
    /\ (lineNo >= 1 /\ BadSum(lines[lineNo])) => hexRet.kind = "formatError"
    /\ hexRet.kind = "return" => \A k \in 1..Len(lines) : ~BadSum(lines[k])

(* the corrupted line comes after decoded data and after an EOF record *)
C5_Witness ==
    /\ hexRet = Raise("formatError", "Checksum error in hex file")
    /\ lineNo = 3
    /\ lines[2] = EndOfFile
    /\ hexData.len = 2

(* C6: a valid data record puts payload byte k at index base + address + k, *)
(* extends the image with zeros up to the highest index touched, and leaves *)
(* every other byte as it was.                                              *)
C6_DataRecordPlacement ==
    [][(ReadsLine /\ ValidRecord(ThisLine) /\ RecType(ThisLine) = 0) =>
        LET n == RecLen(ThisLine)
            a == extraAddr + RecAddr(ThisLine)
        IN  /\ hexRet'.kind = "none"
            /\ \A k \in 0..(n - 1) : At(hexData', a + k) = RecByte(ThisLine, k)
            /\ hexData'.len = (IF n > 0 /\ a + n > hexData.len THEN a + n ELSE hexData.len)
            /\ \A i \in (DOMAIN hexData.mem \cup DOMAIN hexData'.mem) \ (a..(a + n - 1)) :
                    At(hexData', i) = At(hexData, i)]_vars

(* The same for the data records that carry at least one byte. *)
NonEmptyDataRecordPlacement ==
    [][(ReadsLine /\ ValidRecord(ThisLine) /\ RecType(ThisLine) = 0 /\ RecLen(ThisLine) > 0) =>
        LET n == RecLen(ThisLine)
            a == extraAddr + RecAddr(ThisLine)
        IN  /\ hexRet'.kind = "none"
            /\ \A k \in 0..(n - 1) : At(hexData', a + k) = RecByte(ThisLine, k)
            /\ hexData'.len = (IF a + n > hexData.len THEN a + n ELSE hexData.len)
            /\ \A i \in (DOMAIN hexData.mem \cup DOMAIN hexData'.mem) \ (a..(a + n - 1)) :
                    At(hexData', i) = At(hexData, i)]_vars

SeenEOF == \E k \in 1..lineNo : ValidRecord(lines[k]) /\ RecType(lines[k]) = 1

(* C7: once an EOF record has been read the scan stops: the next step       *)
(* returns the image decoded so far, whatever lines follow.                 *)
C7_EOFStopsTheScan ==
    [][(hexRet.kind = "none" /\ SeenEOF) =>
            (lineNo' = lineNo /\ hexRet' = Returned(hexData))]_vars

(* C8: a type 2 record sets the base to value * 16, a type 4 record to      *)
(* value << 16, whatever the base was; these records change no byte of the  *)
(* image; no other record changes the base; a data record is placed from    *)
(* the base in force when it is read.                                       *)
C8_BaseAddress ==
    [][(ReadsLine /\ ValidRecord(ThisLine)) =>
        /\ (RecType(ThisLine) = 2 /\ RecLen(ThisLine) = 2) =>
                (extraAddr' = RecValue(ThisLine) * 16 /\ hexData' = hexData
                    /\ hexRet'.kind = "none")
        /\ (RecType(ThisLine) = 4 /\ RecLen(ThisLine) = 2) =>
                (extraAddr' = RecValue(ThisLine) * 65536 /\ hexData' = hexData
                    /\ hexRet'.kind = "none")
        /\ RecType(ThisLine) \notin {2, 4} => extraAddr' = extraAddr
        /\ (RecType(ThisLine) = 0) =>
                \A k \in 0..(RecLen(ThisLine) - 1) :
                    At(hexData', extraAddr + RecAddr(ThisLine) + k) = RecByte(ThisLine, k)]_vars

(* base 65536, replaced by base 16, then a data record placed from 16 *)
C8_Witness ==
    /\ lines = <<Linear1, Segment1, DataAB>>
    /\ hexRet = Returned([len |-> 18, mem |-> (16 :> 17) @@ (17 :> 34)])

----------------------------------------------------------------------------
(* chipDB.getChipFromDB, lines 26-30, for the signatures of three bytes     *)
(* taken from SignatureBytes.                                               *)

SignatureBytes == {0, 1, 3, 30, 151, 152}

SignatureMatchesOnTwoBytes(entry, s) == SubSeq(entry.signature, 1, 2) = SubSeq(s, 1, 2)

(* Line 28: chip['signature'] == sig *)
SignatureMatches(entry, s) == entry.signature = s

(* Lines 27-29: one iteration of the loop over avrChipDB.values(). *)
getChipFromDBNext ==
    /\ chipRet.kind = "none"
    /\ chipNo < Len(avrChipDB)
    /\ chipNo' = chipNo + 1
    /\ chipRet' = IF SignatureMatches(avrChipDB[chipNo + 1], sig)
                  THEN [kind |-> "chip", chip |-> avrChipDB[chipNo + 1]]
                  ELSE chipRet
    /\ UNCHANGED <<nonChipVars, sig>>

(* Line 30: return False *)
getChipFromDBFalse ==
    /\ chipRet.kind = "none"
    /\ chipNo = Len(avrChipDB)
    /\ chipRet' = [kind |-> "False"]
    /\ UNCHANGED <<nonChipVars, sig, chipNo>>

InitChip ==
    /\ sig \in [1..3 -> SignatureBytes]
    /\ chipNo = 0
    /\ chipRet = [kind |-> "none"]
    /\ NoSerial
    /\ NoHex
    /\ NoFlash
    /\ NoDfu
    /\ NoApp

NextChip == getChipFromDBNext \/ getChipFromDBFalse

SpecChip == InitChip /\ [][NextChip]_vars

(* C9: for every signature of three bytes the lookup returns and does not   *)
(* raise: an entry of the table with exactly that signature when there is   *)
(* one, the not-found value otherwise, never an entry with another          *)
(* signature.                                                               *)
C9_LookupIsTotalAndExact ==
    LET known == {k \in 1..Len(avrChipDB) : \A j \in 1..3 : avrChipDB[k].signature[j] = sig[j]}
    IN  /\ chipRet.kind \in {"none", "chip", "False"}
        /\ chipRet.kind = "none" => ENABLED NextChip
        /\ chipRet.kind = "chip" =>
                /\ \E k \in known : chipRet.chip = avrChipDB[k]
                /\ \A j \in 1..3 : chipRet.chip.signature[j] = sig[j]
        /\ chipRet.kind = "False" => known = {}

C9_Witness ==
    /\ chipRet.kind = "chip"
    /\ chipRet.chip.name = "ATMega2560"
    /\ sig = <<30, 152, 1>>

C9_WitnessNotFound ==
    /\ chipRet.kind = "False"
    /\ sig = <<30, 152, 3>>

----------------------------------------------------------------------------
(* Stk500v2.writeFlash, lines 79-91.  A sendMessage round trip is one step  *)
(* here: the message is written and the counter advanced, and then either   *)
(* an answer is returned or IspError is raised; or the write itself raises. *)

MaxPages == 2

(* An image is the list of bytes readHex returns, kept as its length and    *)
(* its non-zero bytes (see At): len(image), image[a:b].                     *)
ImageSlice(image, a, b) ==
    LET e == IF b < image.len THEN b ELSE image.len
    IN  [k \in 1..(e - a) |-> At(image, a + k - 1)]

(* The payloads sent, in order: payload d is added to the log. *)
Log(log, d) ==
    IF log # <<>> /\ log[Len(log)].payload = d
    THEN [log EXCEPT ![Len(log)].times = @ + 1]
    ELSE Append(log, [payload |-> d, times |-> 1])

SendOutcomes == {"answered", "not written", "not answered"}

(* sendMessage(d) with outcome o, for the method in progress *)
SendMessage(d, o) ==
    /\ seq' = IF o = "not written" THEN seq ELSE NextSeq(seq)
    /\ sent' = IF o = "not written" THEN sent ELSE Log(sent, d)
    /\ ret' = CASE o = "answered" -> NoRet
                [] o = "not written" -> IspError("Serial send timeout")
                [] o = "not answered" -> IspError("Serial recv timeout")

PageBytesNotDoubled(c) == c.pageSize

(* Line 81 *)
PageBytes(c) == c.pageSize * 2

(* Lines 82-86 *)
LoadAddress(c) ==
    IF PageBytes(c) * c.pageCount > 65535
    THEN <<6, 128, 0, 0, 0>>
    ELSE <<6, 0, 0, 0, 0>>

WriteLoadCountRoundedDown(image, c) == image.len \div PageBytes(c)

(* Line 88 *)
WriteLoadCount(image, c) == (image.len + PageBytes(c) - 1) \div PageBytes(c)

(* Line 101 *)
VerifyLoadCount(image) == (image.len + 255) \div 256

(* Line 90: the program-page command of page i *)
ProgramPage(image, c, i) ==
    <<19, PageBytes(c) \div 256, PageBytes(c) % 256, 193, 10, 64, 76, 32, 0, 0>>
        \o ImageSlice(image, i * PageBytes(c), i * PageBytes(c) + PageBytes(c))

(* Lines 81-86: the load address is set. *)
writeFlashLoadAddress ==
    /\ flashPc = "writeFlash"
    /\ \E o \in SendOutcomes :
        /\ SendMessage(LoadAddress(chip), o)
        /\ flashPc' = IF o = "answered" THEN "writePages" ELSE "raised"
    /\ flashI' = 0
    /\ UNCHANGED <<hexVars, chipVars, dfuVars, appVars, chip, flashData, progress, flashMem>>
    /\ UNCHANGED <<pc, op, request, wire, rx, state, checksum, msgSize, data, stream>>

(* Lines 89-91: one iteration of the loop: page i is sent and the progress  *)
(* is emitted.                                                              *)
writeFlashPage ==
    /\ flashPc = "writePages"
    /\ flashI < WriteLoadCount(flashData, chip)
    /\ \E o \in SendOutcomes :
        /\ SendMessage(ProgramPage(flashData, chip, flashI), o)
        /\ IF o = "answered"
           THEN /\ progress' = Append(progress,
                                      <<flashI + 1, WriteLoadCount(flashData, chip) * 2>>)
                /\ flashI' = flashI + 1
                /\ flashPc' = flashPc
           ELSE /\ flashPc' = "raised"
                /\ UNCHANGED <<progress, flashI>>
    /\ UNCHANGED <<hexVars, chipVars, dfuVars, appVars, chip, flashData, flashMem>>
    /\ UNCHANGED <<pc, op, request, wire, rx, state, checksum, msgSize, data, stream>>

(* Line 89: the loop is over, writeFlash returns. *)
writeFlashReturn ==
    /\ flashPc = "writePages"
    /\ flashI = WriteLoadCount(flashData, chip)
    /\ flashPc' = "written"
    /\ UNCHANGED <<serialVars, hexVars, chipVars, dfuVars, appVars, chip, flashData, flashI, progress, sent, flashMem>>

----------------------------------------------------------------------------
(* Stk500v2.verifyFlash, lines 93-107. *)

(* Line 103: the read command *)
READ_FLASH == <<20, 1, 0, 32>>

(* '0x%x' % n : the digits after 0x *)
RECURSIVE HexDigits(_)
HexDigits(n) ==
    IF n < 16 THEN <<LowerDigits[n + 1]>>
    ELSE Append(HexDigits(n \div 16), LowerDigits[(n % 16) + 1])

(* Line 107: ispBase.IspError('Verify error at: 0x%x' % n) *)
VerifyError(n) ==
    [kind |-> "IspError", value |-> "Verify error at: 0x", offset |-> HexDigits(n)]

(* recv[j] with j >= len(recv) *)
IndexError == [kind |-> "IndexError", value |-> "list index out of range"]

(* What the device may answer to the read command of block i: the command  *)
(* byte, the status, the 256 bytes of the block and a closing status; or   *)
(* the command byte and a failure status only.                             *)
ReadAnswers(mem, i) ==
    { <<20, 0>> \o ImageSlice(mem, i * 256, i * 256 + 256) \o <<0>>,
      <<20, 192>> }

VerifyBlockShortRange(image, recv, i) ==
    LET bad == {j \in 0..254 : /\ i * 256 + j < image.len
                               /\ \/ j >= Len(recv)
                                  \/ At(image, i * 256 + j) # recv[j + 1]}
        j0 == CHOOSE j \in bad : \A k \in bad : j <= k
    IN  IF bad = {} THEN NoRet
        ELSE IF j0 >= Len(recv) THEN IndexError
        ELSE VerifyError(i * 256 + j0)

(* Lines 105-107: the comparison loop over block i; what it raises, if      *)
(* anything.  The first j that is inside the image and whose recv[j]       *)
(* differs (or does not exist) ends the loop.                               *)
VerifyBlock(image, recv, i) ==
    LET bad == {j \in 0..255 : /\ i * 256 + j < image.len
                               /\ \/ j >= Len(recv)
                                  \/ At(image, i * 256 + j) # recv[j + 1]}
        j0 == CHOOSE j \in bad : \A k \in bad : j <= k
    IN  IF bad = {} THEN NoRet
        ELSE IF j0 >= Len(recv) THEN IndexError
        ELSE VerifyError(i * 256 + j0)

(* Lines 95-99: the load address is set. *)
verifyFlashLoadAddress ==
    /\ flashPc = "verifyFlash"
    /\ \E o \in SendOutcomes :
        /\ SendMessage(LoadAddress(chip), o)
        /\ flashPc' = IF o = "answered" THEN "verifyBlocks" ELSE "raised"
    /\ flashI' = 0
    /\ UNCHANGED <<hexVars, chipVars, dfuVars, appVars, chip, flashData, progress, flashMem>>
    /\ UNCHANGED <<pc, op, request, wire, rx, state, checksum, msgSize, data, stream>>

(* Lines 102-107: one iteration of the loop: block i is read, the progress  *)
(* is emitted and the block is compared.                                    *)
verifyFlashBlock ==
    /\ flashPc = "verifyBlocks"
    /\ flashI < VerifyLoadCount(flashData)
    /\ \/ \E o \in SendOutcomes \ {"answered"} :
            /\ SendMessage(READ_FLASH, o)
            /\ flashPc' = "raised"
            /\ UNCHANGED <<progress, flashI>>
       \/ \E answer \in ReadAnswers(flashMem, flashI) :
            LET r == VerifyBlock(flashData, Slice(answer, 2, 258), flashI)
            IN  /\ seq' = NextSeq(seq)
                /\ sent' = Log(sent, READ_FLASH)
                /\ progress' = Append(progress,
                                      <<VerifyLoadCount(flashData) + flashI + 1,
                                        VerifyLoadCount(flashData) * 2>>)
                /\ ret' = r
                /\ flashPc' = IF r.kind = "none" THEN flashPc ELSE "raised"
                /\ flashI' = IF r.kind = "none" THEN flashI + 1 ELSE flashI
    /\ UNCHANGED <<hexVars, chipVars, dfuVars, appVars, chip, flashData, flashMem>>
    /\ UNCHANGED <<pc, op, request, wire, rx, state, checksum, msgSize, data, stream>>

(* Line 102: the loop is over, verifyFlash returns. *)
verifyFlashReturn ==
    /\ flashPc = "verifyBlocks"
    /\ flashI = VerifyLoadCount(flashData)
    /\ flashPc' = "verified"
    /\ UNCHANGED <<serialVars, hexVars, chipVars, dfuVars, appVars, chip, flashData, flashI, progress, sent, flashMem>>

(* The device memories: the image, followed by erased bytes up to the end   *)
(* of its last block, with up to two bytes changed.                         *)
CorruptIndexes(image) ==
    {0, 1, 255, 256, image.len - 1, image.len}
        \cap (0..(256 * VerifyLoadCount(image) - 1))

Corrupted(image, c) ==
    LET byte(n) == LET b == IF n < image.len THEN At(image, n) ELSE 255
                   IN  IF n \in c THEN (b + 1) % 256 ELSE b
        size == 256 * VerifyLoadCount(image)
    IN  [len |-> size, mem |-> [n \in {m \in 0..(size - 1) : byte(m) # 0} |-> byte(n)]]

FlashMemories(image) ==
    {Corrupted(image, c) : c \in {x \in SUBSET CorruptIndexes(image) : Cardinality(x) <= 2}}

(* The images: one of each length around the page boundaries. *)
FlashImage(n) ==
    [len |-> n, mem |-> [i \in {j \in 0..(n - 1) : (j + 1) % 251 # 0} |-> (i + 1) % 251]]

FlashLengths == {256 * k + d : k \in 0..MaxPages, d \in {-1, 0, 1}} \cap Nat

(* writeFlash or verifyFlash is called in a session that has resolved its    *)
(* chip.                                                                    *)
InitFlash ==
    /\ chip \in {avrChipDB[k] : k \in 1..Len(avrChipDB)}
    /\ flashData \in {FlashImage(n) : n \in FlashLengths}
    /\ flashMem \in FlashMemories(flashData)
    /\ flashPc \in {"writeFlash", "verifyFlash"}
    /\ flashI = 0
    /\ progress = <<>>
    /\ sent = <<>>
    /\ seq \in {3, 254}
    /\ pc = "idle"
    /\ op = "none"
    /\ request = <<>>
    /\ wire = <<>>
    /\ rx = <<>>
    /\ state = "Start"
    /\ checksum = 0
    /\ msgSize = 0
    /\ data = <<>>
    /\ ret = NoRet
    /\ stream = [garbage |-> <<>>, seq |-> 0, payload |-> <<>>]
    /\ NoHex
    /\ NoChip
    /\ NoDfu
    /\ NoApp

NextFlash ==
    \/ writeFlashLoadAddress
    \/ writeFlashPage
    \/ writeFlashReturn
    \/ verifyFlashLoadAddress
    \/ verifyFlashBlock
    \/ verifyFlashReturn

SpecFlash == InitFlash /\ [][NextFlash]_vars

(* the number of payloads in the log and the k-th of them *)
RECURSIVE SentCount(_)
SentCount(log) == IF log = <<>> THEN 0 ELSE Head(log).times + SentCount(Tail(log))

RECURSIVE SentAt(_, _)
SentAt(log, k) ==
    IF k <= Head(log).times THEN Head(log).payload
    ELSE SentAt(Tail(log), k - Head(log).times)

(* the least n with n * d >= x *)
CeilDiv(x, d) == CHOOSE n \in 0..x : n * d >= x /\ \A m \in 0..(n - 1) : m * d < x

(* C10: writeFlash sends ceil(L / P) program-page commands, P being twice   *)
(* the chip's pageSize, in ascending page order, command i carrying the     *)
(* image bytes [i*P, (i+1)*P); after command k it emits (k, total), total   *)
(* being the write pages plus the verify steps (blocks of 256 bytes).       *)
C10_PagesAndProgress ==
    LET P == 2 * chip.pageSize
        L == flashData.len
        pages == CeilDiv(L, P)
        total == pages + CeilDiv(L, 256)
        last(i) == IF (i + 1) * P < L THEN (i + 1) * P ELSE L
    IN  flashPc \in {"writePages", "written"} =>
            /\ SentCount(sent) = 1 + Len(progress)
            /\ SentAt(sent, 1)[1] = 6
            /\ Len(progress) <= pages
            /\ flashPc = "written" => Len(progress) = pages
            /\ \A k \in 1..Len(progress) :
                /\ progress[k] = <<k, total>>
                /\ SentAt(sent, k + 1)[1] = 19
                /\ Len(SentAt(sent, k + 1)) = 10 + last(k - 1) - (k - 1) * P
                /\ \A j \in 1..(last(k - 1) - (k - 1) * P) :
                        SentAt(sent, k + 1)[10 + j] = At(flashData, (k - 1) * P + j - 1)

(* an image of two full pages and one byte has been written *)
C10_Witness ==
    /\ flashPc = "written"
    /\ flashData.len = 513
    /\ Len(progress) = 3
    /\ progress[3] = <<3, 6>>

----------------------------------------------------------------------------
(* verifyFlash against the device memory. *)

(* the indexes inside the image at which the device memory differs from it *)
Mismatches == {n \in 0..(flashData.len - 1) : At(flashMem, n) # At(flashData, n)}

(* the read commands sent so far *)
RECURSIVE Times(_, _)
Times(log, first) ==
    IF log = <<>> THEN 0
    ELSE (IF Head(log).payload[1] = first THEN Head(log).times ELSE 0) + Times(Tail(log), first)

ReadsSent == Times(sent, 20)

VerifyErrorRaised ==
    /\ flashPc = "raised"
    /\ ret.kind = "IspError"
    /\ ret.value = "Verify error at: 0x"

(* C11: verifyFlash reads the blocks of 256 bytes back in ascending order;  *)
(* a block is passed only if the device memory equals the image at every    *)
(* index of the block that is inside the image, bytes read back beyond the  *)
(* end of the image are not compared; at the lowest mismatching index N it  *)
(* raises IspError naming N, having sent the reads of blocks 0..N div 256   *)
(* and no other, and nothing is sent afterwards; with no mismatch it never  *)
(* raises a verify error and returns once every block has been read.        *)
C11_VerifyFlash ==
    LET L == flashData.len
        blocks == CeilDiv(L, 256)
    IN  /\ flashPc \in {"verifyBlocks", "verified"} =>
            /\ SentAt(sent, 1) = LoadAddress(chip)
            /\ \A k \in 2..SentCount(sent) : SentAt(sent, k) = READ_FLASH
            /\ SentCount(sent) = 1 + flashI
            /\ ReadsSent = flashI
            /\ flashI <= blocks
            /\ \A n \in Mismatches : n >= 256 * flashI
            /\ ret.kind = "none"
        /\ flashPc = "verifyBlocks" => ENABLED NextFlash
        /\ flashPc = "verified" =>
            /\ Mismatches = {}
            /\ ReadsSent = blocks
        /\ VerifyErrorRaised =>
            /\ Mismatches # {}
            /\ DigitsValue(ret.offset) \in Mismatches
            /\ \A n \in Mismatches : DigitsValue(ret.offset) <= n
            /\ ReadsSent = (DigitsValue(ret.offset) \div 256) + 1
            /\ ~ENABLED NextFlash

(* a mismatch at 0x100 and a later one: the error names 0x100 after two     *)
(* reads                                                                    *)
C11_Witness ==
    /\ VerifyErrorRaised
    /\ ret.offset = <<"1", "0", "0">>
    /\ Cardinality(Mismatches) = 2
    /\ ReadsSent = 2

(* a device byte beyond the end of the image differs from the erased state  *)
(* and the verification passes                                              *)
VerifiedWithDifferenceBeyondImage ==
    /\ flashPc = "verified"
    /\ flashData.len = 257
    /\ At(flashMem, 257) # 255

----------------------------------------------------------------------------
(* programChip: the chip is resolved from the signature, the image is      *)
(* written and then verified (spec, section 4.3, steps 1, 3 and 4; the     *)
(* method itself is ispBase.IspBase.programChip).  The lookup, writeFlash   *)
(* and verifyFlash are the actions above.                                   *)

(* self.chip = the entry found *)
programChipResolved ==
    /\ flashPc = "programChip"
    /\ chipRet.kind = "chip"
    /\ chip' = chipRet.chip
    /\ flashPc' = "writeFlash"
    /\ UNCHANGED <<serialVars, hexVars, chipVars, dfuVars, appVars, flashData, flashI, progress, sent, flashMem>>

(* NotFound is fatal for the session *)
programChipNotFound ==
    /\ flashPc = "programChip"
    /\ chipRet.kind = "False"
    /\ flashPc' = "raised"
    /\ ret' = IspError("Chip not found")
    /\ UNCHANGED <<hexVars, chipVars, dfuVars, appVars, chip, flashData, flashI, progress, sent, flashMem>>
    /\ UNCHANGED <<seq, pc, op, request, wire, rx, state, checksum, msgSize, data, stream>>

(* the write phase is over, the verify phase starts *)
programChipVerify ==
    /\ flashPc = "written"
    /\ flashPc' = "verifyFlash"
    /\ UNCHANGED <<serialVars, hexVars, chipVars, dfuVars, appVars, chip, flashData, flashI, progress, sent, flashMem>>

(* The scenario of the spec: an image of 256KB, all zero. *)
ImageSize256K == 262144

ZeroImage256K == [len |-> ImageSize256K, mem |-> <<>>]

(* The sessions: the scenario on the ATMega2560 with a device that returns  *)
(* what was written, and the small images on every signature and memory.   *)
ProgramInputs ==
    {[sig |-> <<30, 152, 1>>, image |-> ZeroImage256K, mem |-> ZeroImage256K]}
    \cup UNION {{[sig |-> s, image |-> FlashImage(n), mem |-> m] :
                    s \in {<<30, 152, 1>>, <<30, 151, 3>>, <<30, 152, 3>>},
                    m \in FlashMemories(FlashImage(n))} : n \in FlashLengths}

InitProgram ==
    /\ \E in \in ProgramInputs :
        /\ sig = in.sig
        /\ flashData = in.image
        /\ flashMem = in.mem
    /\ chipNo = 0
    /\ chipRet = [kind |-> "none"]
    /\ chip = avrChipDB[1]
    /\ flashPc = "programChip"
    /\ flashI = 0
    /\ progress = <<>>
    /\ sent = <<>>
    /\ seq = 3
    /\ pc = "idle"
    /\ op = "none"
    /\ request = <<>>
    /\ wire = <<>>
    /\ rx = <<>>
    /\ state = "Start"
    /\ checksum = 0
    /\ msgSize = 0
    /\ data = <<>>
    /\ ret = NoRet
    /\ stream = [garbage |-> <<>>, seq |-> 0, payload |-> <<>>]
    /\ NoHex
    /\ NoDfu
    /\ NoApp

NextProgram ==
    \/ getChipFromDBNext
    \/ getChipFromDBFalse
    \/ programChipResolved
    \/ programChipNotFound
    \/ writeFlashLoadAddress
    \/ writeFlashPage
    \/ writeFlashReturn
    \/ programChipVerify
    \/ verifyFlashLoadAddress
    \/ verifyFlashBlock
    \/ verifyFlashReturn

SpecProgram == InitProgram /\ [][NextProgram]_vars

(* the program-page commands sent so far *)
PagesSent == Times(sent, 19)

(* C12 as stated: 2048 program-page commands have been sent when the write *)
(* phase of the scenario is over.                                           *)
C12_PageWritesAre2048 ==
    (sig = <<30, 152, 1>> /\ flashData = ZeroImage256K
        /\ flashPc \in {"written", "verifyFlash", "verifyBlocks", "verified"})
    => PagesSent = 2048

(* C12, amended: the signature 1E 98 01 resolves to the ATMega2560 with     *)
(* pageSize 128 and pageCount 1024; programming the all-zero image of       *)
(* 262144 bytes on it sends exactly 1024 program-page commands (pages of    *)
(* 256 bytes) before the verify pass starts and none later, every progress  *)
(* emission carries the total 2048 (1024 write pages and 1024 verify        *)
(* blocks), and with a device that returns the written bytes the verify     *)
(* pass reads the 1024 blocks and raises no verify error.                   *)
C12_EndToEnd2560 ==
    sig = <<30, 152, 1>> =>
        /\ chipRet.kind \in {"none", "chip"}
        /\ chipRet.kind = "chip" =>
            /\ chipRet.chip.name = "ATMega2560"
            /\ chipRet.chip.pageSize = 128
            /\ chipRet.chip.pageCount = 1024
        /\ flashPc \notin {"programChip", "raised"} => chip = chipRet.chip
        /\ flashData = ZeroImage256K =>
            /\ PagesSent <= 1024
            /\ \A k \in 1..Len(progress) : progress[k] = <<k, 2048>>
            /\ flashPc \in {"writeFlash", "writePages"} => PagesSent = Len(progress)
            /\ flashPc \in {"written", "verifyFlash", "verifyBlocks", "verified"} =>
                    PagesSent = 1024
            /\ flashMem = flashData =>
                    /\ ~VerifyErrorRaised
                    /\ flashPc = "verifyBlocks" =>
                            /\ ReadsSent = flashI
                            /\ ENABLED NextProgram
                    /\ flashPc = "verified" => ReadsSent = 1024

(* the scenario has run to its end *)
C12_Witness ==
    /\ sig = <<30, 152, 1>>
    /\ chip.name = "ATMega2560"
    /\ flashData = ZeroImage256K
    /\ flashMem = flashData
    /\ flashPc = "verified"
    /\ PagesSent = 1024
    /\ ReadsSent = 1024
    /\ Len(progress) = 2048

----------------------------------------------------------------------------
(* pydfu.py: the DFU engine.  A session is main (lines 611-643) or          *)
(* DFUTool.run (lines 932-968): mass_erase when main is asked for it,       *)
(* write_elements, exit_dfu.  Every control transfer on __dev is one entry  *)
(* of usb; the device's part is the state a GETSTATUS reports and whether a *)
(* transfer raises usb.core.USBError.                                       *)

DFU_STATE_DFU_IDLE == 2
DFU_STATE_DFU_DOWNLOAD_BUSY == 4
DFU_STATE_DFU_DOWNLOAD_IDLE == 5
DFU_STATE_DFU_MANIFEST == 7
DFU_STATE_DFU_ERROR == 10

(* the states a device reports in the model *)
DfuStates == {DFU_STATE_DFU_IDLE, DFU_STATE_DFU_DOWNLOAD_BUSY, DFU_STATE_DFU_DOWNLOAD_IDLE,
              DFU_STATE_DFU_MANIFEST, DFU_STATE_DFU_ERROR}

(* a & b for a >= 0; b may be -1 (all ones) *)
RECURSIVE BitAnd(_, _)
BitAnd(a, b) ==
    IF a = 0 \/ b = 0 THEN 0
    ELSE ((a % 2) * (b % 2)) + 2 * BitAnd(a \div 2, b \div 2)

(* Line 532: addr & ~(page_size - 1) *)
PageAddr(addr, page_size) == addr - BitAnd(addr, page_size - 1)

(* struct.pack("<BI", cmd, addr), addr < 2^32 *)
PackBI(cmd, addr) ==
    <<cmd, addr % 256, (addr \div 256) % 256, (addr \div 65536) % 256,
      (addr \div 16777216) % 256>>

Dnload(wValue, d) == [req |-> "DNLOAD", wValue |-> wValue, data |-> d]

GetStatus(st) == [req |-> "GETSTATUS", state |-> st]

SystemExit(stage, st) == [kind |-> "SystemExit", stage |-> stage, state |-> st]

USBError == [kind |-> "USBError"]

TransferOutcomes == {"ok", "USBError"}

(* a command that reads the status once, for DOWNLOAD_BUSY only *)
CommandReadOnce(wValue, d, stage, then, l, o) ==
    IF o = "ok"
    THEN /\ usb' = Append(usb, Dnload(wValue, d))
         /\ dfuL' = [l EXCEPT !.stage = stage,
                              !.expect = <<DFU_STATE_DFU_DOWNLOAD_BUSY>>,
                              !.then = then]
         /\ dfuPc' = "check_status"
         /\ dfuRet' = dfuRet
    ELSE /\ dfuPc' = "raised"
         /\ dfuRet' = USBError
         /\ UNCHANGED <<usb, dfuL>>

(* __dev.ctrl_transfer(0x21, __DFU_DNLOAD, wValue, __DFU_INTERFACE, d) with *)
(* outcome o, followed by the two check_status calls of `stage`; the        *)
(* session goes on at `then` with the locals l once both have passed.       *)
Command(wValue, d, stage, then, l, o) ==
    IF o = "ok"
    THEN /\ usb' = Append(usb, Dnload(wValue, d))
         /\ dfuL' = [l EXCEPT !.stage = stage,
                              !.expect = <<DFU_STATE_DFU_DOWNLOAD_BUSY,
                                           DFU_STATE_DFU_DOWNLOAD_IDLE>>,
                              !.then = then]
         /\ dfuPc' = "check_status"
         /\ dfuRet' = dfuRet
    ELSE /\ dfuPc' = "raised"
         /\ dfuRet' = USBError
         /\ UNCHANGED <<usb, dfuL>>

(* the locals before anything has run *)
DfuLocals ==
    [elemNo |-> 0, addr |-> 0, size |-> 0, data |-> <<>>, elem_addr |-> 0, elem_size |-> 0,
     write_size |-> 0, xfer_count |-> 0, xfer_bytes |-> 0, buf |-> <<>>, xfer_base |-> 0,
     stage |-> "", expect |-> <<>>, then |-> ""]

(* Lines 619-623 (main): mass_erase() when asked for; DFUTool.run does not  *)
(* call it.  Lines 178-187: mass_erase.                                     *)
sessionStart ==
    /\ dfuPc = "start"
    /\ IF dfuIn.caller = "main" /\ dfuIn.mass_erase
       THEN \E o \in TransferOutcomes : Command(0, <<65>>, "erase", "path", dfuL, o)
       ELSE /\ dfuPc' = "path"
            /\ UNCHANGED <<usb, dfuL, dfuRet>>
    /\ UNCHANGED <<nonDfuVars, dfuIn, dfuProgress, dfuFile, dfuParse, layoutStr, layoutSt>>

(* main going on to write_elements whatever read_dfu_file returned *)
sessionPathAlwaysWrites ==
    /\ dfuPc = "path"
    /\ dfuPc' = "write_elements"
    /\ UNCHANGED <<nonDfuVars, dfuIn, dfuL, usb, dfuProgress, dfuRet,
                   dfuFile, dfuParse, layoutStr, layoutSt>>

(* Lines 625-631 (main): with no elements nothing is written and main      *)
(* returns; lines 943-953 (DFUTool.run): the one element is written.        *)
sessionPath ==
    /\ dfuPc = "path"
    /\ IF dfuIn.caller = "main" /\ dfuIn.elements = <<>>
       THEN /\ dfuPc' = "done"
            /\ dfuRet' = [kind |-> "return", value |-> "No data in dfu file"]
       ELSE /\ dfuPc' = "write_elements"
            /\ dfuRet' = dfuRet
    /\ UNCHANGED <<nonDfuVars, dfuIn, dfuL, usb, dfuProgress, dfuFile, dfuParse, layoutStr, layoutSt>>

(* Lines 516-523: the next element of the for loop. *)
writeElementsNext ==
    /\ dfuPc = "write_elements"
    /\ dfuL.elemNo < Len(dfuIn.elements)
    /\ LET elem == dfuIn.elements[dfuL.elemNo + 1]
       IN  /\ dfuL' = [dfuL EXCEPT !.elemNo = @ + 1,
                                   !.addr = elem.addr, !.size = elem.size, !.data = elem.data,
                                   !.elem_addr = elem.addr, !.elem_size = elem.size]
           /\ dfuProgress' = IF elem.size # 0
                             THEN Append(dfuProgress, <<elem.addr, 0, elem.size>>)
                             ELSE dfuProgress
    /\ dfuPc' = "while"
    /\ UNCHANGED <<nonDfuVars, dfuIn, usb, dfuRet, dfuFile, dfuParse, layoutStr, layoutSt>>

(* Line 516: the for loop is over, write_elements returns; exit_dfu is next *)
(* (lines 633-634, 954).                                                    *)
writeElementsReturn ==
    /\ dfuPc = "write_elements"
    /\ dfuL.elemNo = Len(dfuIn.elements)
    /\ dfuPc' = "exit_dfu"
    /\ UNCHANGED <<nonDfuVars, dfuIn, dfuL, usb, dfuProgress, dfuRet,
                   dfuFile, dfuParse, layoutStr, layoutSt>>

(* Lines 527-528: the first segment of the layout that holds addr, 0 if     *)
(* there is none.                                                           *)
SegmentOf(layout, addr) ==
    LET found == {k \in 1..Len(layout) : addr >= layout[k].addr /\ addr <= layout[k].last_addr}
    IN  IF found = {} THEN 0 ELSE CHOOSE k \in found : \A j \in found : k <= j

(* Lines 525, 531-534: write_size, cut at the end of the page of addr *)
WriteSize(addr, size, page_size) ==
    IF addr + size > PageAddr(addr, page_size) + page_size
    THEN PageAddr(addr, page_size) + page_size - addr
    ELSE size

(* Lines 524-539: one iteration of the while loop up to the call of         *)
(* write_memory: write_size is set, the page of addr is erased unless a     *)
(* mass erase was used or no segment holds addr, and write_memory is        *)
(* entered (lines 224-227).                                                 *)
writeElementsWhile ==
    /\ dfuPc = "while"
    /\ dfuL.size > 0
    /\ LET k == IF dfuIn.mass_erase THEN 0 ELSE SegmentOf(dfuIn.layout, dfuL.addr)
           write_size == IF k = 0 THEN dfuL.size
                         ELSE WriteSize(dfuL.addr, dfuL.size, dfuIn.layout[k].page_size)
           l == [dfuL EXCEPT !.write_size = write_size,
                             !.xfer_count = 0, !.xfer_bytes = 0,
                             !.buf = Slice(dfuL.data, 0, write_size),
                             !.xfer_base = dfuL.addr]
       IN  IF k = 0
           THEN /\ dfuL' = l
                /\ dfuPc' = "write_memory"
                /\ UNCHANGED <<usb, dfuRet>>
           ELSE \E o \in TransferOutcomes :
                    Command(0, PackBI(65, PageAddr(dfuL.addr, dfuIn.layout[k].page_size)),
                            "erase", "write_memory", l, o)
    /\ UNCHANGED <<nonDfuVars, dfuIn, dfuProgress, dfuFile, dfuParse, layoutStr, layoutSt>>

(* Line 524: size is 0, the while loop is over. *)
writeElementsWhileEnd ==
    /\ dfuPc = "while"
    /\ dfuL.size <= 0
    /\ dfuPc' = "write_elements"
    /\ UNCHANGED <<nonDfuVars, dfuIn, dfuL, usb, dfuProgress, dfuRet,
                   dfuFile, dfuParse, layoutStr, layoutSt>>

(* Lines 229-239: the loop of write_memory is entered for one more chunk:   *)
(* progress on every second chunk, then set_address (lines 206-210).        *)
writeMemorySetAddress ==
    /\ dfuPc = "write_memory"
    /\ dfuL.xfer_bytes < Len(dfuL.buf)
    /\ dfuProgress' = IF dfuL.xfer_count % 2 = 0
                      THEN Append(dfuProgress,
                                  <<dfuL.elem_addr,
                                    dfuL.xfer_base + dfuL.xfer_bytes - dfuL.elem_addr,
                                    dfuL.elem_size>>)
                      ELSE dfuProgress
    /\ \E o \in TransferOutcomes :
           Command(0, PackBI(33, dfuL.xfer_base + dfuL.xfer_bytes),
                   "set address", "chunk", dfuL, o)
    /\ UNCHANGED <<nonDfuVars, dfuIn, dfuFile, dfuParse, layoutStr, layoutSt>>

(* a chunk size that does not look at the transfer size: min left out *)
ChunkNone(l) == 0

(* the whole remainder in one chunk *)
ChunkRemainder(l) == Len(l.buf) - l.xfer_bytes

(* Line 242 *)
Chunk(l) ==
    IF dfuIn.wTransferSize < Len(l.buf) - l.xfer_bytes
    THEN dfuIn.wTransferSize
    ELSE Len(l.buf) - l.xfer_bytes

(* Lines 242-245: the chunk is sent with wValue 2. *)
writeMemoryChunk ==
    /\ dfuPc = "chunk"
    /\ \E o \in TransferOutcomes :
           Command(2, Slice(dfuL.buf, dfuL.xfer_bytes, dfuL.xfer_bytes + Chunk(dfuL)),
                   "write memory", "count", dfuL, o)
    /\ UNCHANGED <<nonDfuVars, dfuIn, dfuProgress, dfuFile, dfuParse, layoutStr, layoutSt>>

(* Lines 253-254 *)
writeMemoryCount ==
    /\ dfuPc = "count"
    /\ dfuL' = [dfuL EXCEPT !.xfer_count = @ + 1, !.xfer_bytes = @ + Chunk(dfuL)]
    /\ dfuPc' = "write_memory"
    /\ UNCHANGED <<nonDfuVars, dfuIn, usb, dfuProgress, dfuRet,
                   dfuFile, dfuParse, layoutStr, layoutSt>>

(* write_elements going on to the next page with the data it had: line 540 *)
(* left out                                                                 *)
writeMemoryReturnKeepsData ==
    /\ dfuPc = "write_memory"
    /\ dfuL.xfer_bytes >= Len(dfuL.buf)
    /\ dfuL' = [dfuL EXCEPT !.addr = @ + dfuL.write_size,
                            !.size = @ - dfuL.write_size]
    /\ dfuProgress' = Append(dfuProgress,
                             <<dfuL.elem_addr,
                               dfuL.addr + dfuL.write_size - dfuL.elem_addr,
                               dfuL.elem_size>>)
    /\ dfuPc' = "while"
    /\ UNCHANGED <<nonDfuVars, dfuIn, usb, dfuRet, dfuFile, dfuParse, layoutStr, layoutSt>>

(* Lines 229, 540-544: write_memory returns, data, addr and size move on by *)
(* write_size and progress is reported.                                     *)
writeMemoryReturn ==
    /\ dfuPc = "write_memory"
    /\ dfuL.xfer_bytes >= Len(dfuL.buf)
    /\ dfuL' = [dfuL EXCEPT !.data = Slice(dfuL.data, dfuL.write_size, Len(dfuL.data)),
                            !.addr = @ + dfuL.write_size,
                            !.size = @ - dfuL.write_size]
    /\ dfuProgress' = Append(dfuProgress,
                             <<dfuL.elem_addr,
                               dfuL.addr + dfuL.write_size - dfuL.elem_addr,
                               dfuL.elem_size>>)
    /\ dfuPc' = "while"
    /\ UNCHANGED <<nonDfuVars, dfuIn, usb, dfuRet, dfuFile, dfuParse, layoutStr, layoutSt>>

(* Lines 159-175: check_status reads the status once and raises SystemExit  *)
(* unless it is the expected state; the read itself may raise USBError.     *)
(* Every command calls it twice, for DOWNLOAD_BUSY and then DOWNLOAD_IDLE.  *)
check_status ==
    /\ dfuPc = "check_status"
    /\ \/ \E status \in DfuStates :
              /\ usb' = Append(usb, GetStatus(status))
              /\ IF status # Head(dfuL.expect)
                 THEN /\ dfuPc' = "raised"
                      /\ dfuRet' = SystemExit(dfuL.stage, status)
                      /\ dfuL' = dfuL
                 ELSE /\ dfuL' = [dfuL EXCEPT !.expect = Tail(@)]
                      /\ dfuPc' = IF Tail(dfuL.expect) = <<>> THEN dfuL.then ELSE "check_status"
                      /\ dfuRet' = dfuRet
       \/ /\ dfuPc' = "raised"
          /\ dfuRet' = USBError
          /\ UNCHANGED <<usb, dfuL>>
    /\ UNCHANGED <<nonDfuVars, dfuIn, dfuProgress, dfuFile, dfuParse, layoutStr, layoutSt>>

(* Lines 280-283: exit_dfu sets the jump address 0x08000000. *)
exit_dfu ==
    /\ dfuPc = "exit_dfu"
    /\ \E o \in TransferOutcomes :
           Command(0, PackBI(33, 134217728), "set address", "leave", dfuL, o)
    /\ UNCHANGED <<nonDfuVars, dfuIn, dfuProgress, dfuFile, dfuParse, layoutStr, layoutSt>>

(* Line 286: the DNLOAD of length 0 that leaves DFU mode. *)
exitDfuLeave ==
    /\ dfuPc = "leave"
    /\ \E o \in TransferOutcomes :
           IF o = "ok"
           THEN /\ usb' = Append(usb, Dnload(0, <<>>))
                /\ dfuPc' = "manifest"
                /\ dfuRet' = dfuRet
           ELSE /\ dfuPc' = "raised"
                /\ dfuRet' = USBError
                /\ usb' = usb
    /\ UNCHANGED <<nonDfuVars, dfuIn, dfuL, dfuProgress, dfuFile, dfuParse, layoutStr, layoutSt>>

(* exit_dfu with the last status checked like every other command's: a      *)
(* state other than MANIFEST or an error of the read ends the session.      *)
exitDfuStatusChecked ==
    /\ dfuPc = "manifest"
    /\ \/ \E status \in DfuStates :
              /\ usb' = Append(usb, GetStatus(status))
              /\ IF status # DFU_STATE_DFU_MANIFEST
                 THEN /\ dfuPc' = "raised"
                      /\ dfuRet' = SystemExit("exit", status)
                 ELSE /\ dfuPc' = "done"
                      /\ dfuRet' = [kind |-> "return", value |-> "Finished"]
       \/ /\ usb' = usb
          /\ dfuPc' = "raised"
          /\ dfuRet' = USBError
    /\ UNCHANGED <<nonDfuVars, dfuIn, dfuL, dfuProgress, dfuFile, dfuParse, layoutStr, layoutSt>>

(* Lines 288-296: one status read; any state and any error is accepted.     *)
exitDfuStatus ==
    /\ dfuPc = "manifest"
    /\ \/ \E status \in DfuStates : usb' = Append(usb, GetStatus(status))
       \/ usb' = usb
    /\ dfuPc' = "done"
    /\ dfuRet' = [kind |-> "return", value |-> "Finished"]
    /\ UNCHANGED <<nonDfuVars, dfuIn, dfuL, dfuProgress, dfuFile, dfuParse, layoutStr, layoutSt>>

(* Inputs of a DFU session. *)

MaxElems == 2
MaxElemSize == 3

(* the address DFUTool.run writes to, line 943 *)
FlashBase == 134217728

(* the first n bytes of a firmware *)
Firmware(n) == [i \in 1..n |-> 16 + i]

(* An element as read_dfu_file (lines 393-404) or DFUTool.run (line 943)    *)
(* builds it; size is len(data) unless the file was cut short.              *)
Elements(caller) ==
    {[addr |-> a, size |-> n + more, data |-> Firmware(n)] :
        a \in {FlashBase, FlashBase + 1},
        n \in 0..MaxElemSize,
        more \in IF caller = "main" THEN {0, 1} ELSE {0}}

RECURSIVE ElementLists(_, _)
ElementLists(caller, n) ==
    IF n = 0 THEN {<<>>}
    ELSE ElementLists(caller, n - 1)
         \cup {Append(es, e) : es \in {l \in ElementLists(caller, n - 1) : Len(l) = n - 1},
                               e \in Elements(caller)}

(* memory layouts as get_memory_layout returns them: no segment, pages of   *)
(* 2 bytes, and pages of 2 bytes followed by pages of 4 bytes               *)
Layouts ==
    {<<>>,
     <<[addr |-> FlashBase, last_addr |-> FlashBase + 7, page_size |-> 2]>>,
     <<[addr |-> FlashBase, last_addr |-> FlashBase + 1, page_size |-> 2],
       [addr |-> FlashBase + 2, last_addr |-> FlashBase + 9, page_size |-> 4]>>}

TransferSizes == {1, 2}

(* main (lines 619-634) writes the elements of a file; DFUTool.run (lines   *)
(* 943-954) writes the whole file as one element at FlashBase.              *)
DfuInputs ==
    {[caller |-> "main", mass_erase |-> m, elements |-> es, layout |-> l, wTransferSize |-> w] :
        m \in BOOLEAN, es \in ElementLists("main", MaxElems), l \in Layouts, w \in TransferSizes}
    \cup
    {[caller |-> "run", mass_erase |-> m, elements |-> <<e>>, layout |-> l, wTransferSize |-> w] :
        m \in BOOLEAN, e \in {x \in Elements("run") : x.addr = FlashBase},
        l \in Layouts, w \in TransferSizes}

InitDfu ==
    /\ NoSerial
    /\ NoHex
    /\ NoChip
    /\ NoFlash
    /\ dfuIn \in DfuInputs
    /\ dfuPc = "start"
    /\ dfuL = DfuLocals
    /\ usb = <<>>
    /\ dfuProgress = <<>>
    /\ dfuRet = [kind |-> "none"]
    /\ dfuFile = <<>>
    /\ dfuParse = <<>>
    /\ layoutStr = <<>>
    /\ layoutSt = <<>>
    /\ NoApp

NextDfu ==
    \/ sessionStart
    \/ sessionPath
    \/ writeElementsNext
    \/ writeElementsReturn
    \/ writeElementsWhile
    \/ writeElementsWhileEnd
    \/ writeMemorySetAddress
    \/ writeMemoryChunk
    \/ writeMemoryCount
    \/ writeMemoryReturn
    \/ check_status
    \/ exit_dfu
    \/ exitDfuLeave
    \/ exitDfuStatus

SpecDfu == InitDfu /\ [][NextDfu]_vars

----------------------------------------------------------------------------
(* Both engines: a session is either programChip on the AVR engine or a     *)
(* DFU session.                                                             *)

InitEngines == InitProgram \/ InitDfu

NextEngines == NextProgram \/ NextDfu

SpecEngines == InitEngines /\ [][NextEngines]_vars

(* the current values of the emissions of the AVR engine, in order *)
AvrCurrent == [k \in 1..Len(progress) |-> progress[k][1]]

(* DFUTool.cl_progress, lines 924-927: the callback receives (offset, size) *)
DfuCurrent == [k \in 1..Len(dfuProgress) |-> dfuProgress[k][2]]

NonDecreasing(s) == \A k \in 1..(Len(s) - 1) : s[k] <= s[k + 1]

(* C13: within one session the current value passed to the progress        *)
(* callback never decreases from one emission to the next, on the AVR       *)
(* engine across writeFlash and verifyFlash and on the DFU engine across    *)
(* all emissions of write_elements and write_memory.                        *)
C13_ProgressNeverDecreases ==
    /\ NonDecreasing(AvrCurrent)
    /\ NonDecreasing(DfuCurrent)

(* The AVR half of C13 alone. *)
AvrProgressNeverDecreases == NonDecreasing(AvrCurrent)

(* The DFU emissions never decrease while one element is written: a         *)
(* decrease is the first emission of a further element.                     *)
DfuProgressDecreasesOnlyAtNextElement ==
    \A k \in 1..(Len(dfuProgress) - 1) :
        dfuProgress[k][2] > dfuProgress[k + 1][2]
        => /\ dfuProgress[k + 1][2] = 0
           /\ dfuProgress[k][2] = dfuProgress[k][3]

(* A session of main over two elements of 1 byte: the emissions are         *)
(* 0, 0, 1 for the first element and 0 again for the second.                *)
ProgressRestarted ==
    /\ dfuIn # <<>>
    /\ dfuIn.caller = "main"
    /\ Len(dfuIn.elements) = 2
    /\ Len(dfuProgress) >= 4
    /\ dfuProgress[3][2] = 1
    /\ dfuProgress[4][2] = 0

----------------------------------------------------------------------------
(* The status contract of the commands. *)

(* a DNLOAD of mass_erase, page_erase, set_address or of a chunk; the       *)
(* DNLOAD of length 0 of exit_dfu is none of them                           *)
IsCommand(m) == m.req = "DNLOAD" /\ m.data # <<>>

IsStatus(m, st) == m.req = "GETSTATUS" /\ m.state = st

(* the command at index k of the log ended with SystemExit on state st *)
Failed(k, st) ==
    /\ dfuPc = "raised"
    /\ dfuRet = SystemExit(dfuL.stage, st)
    /\ dfuL.stage = (IF usb[k].wValue = 2 THEN "write memory"
                     ELSE IF usb[k].data[1] = 65 THEN "erase"
                     ELSE "set address")

(* C20: after each DNLOAD of mass_erase, page_erase, set_address and of a   *)
(* chunk the status is read twice; the session goes on only if the first    *)
(* read is DOWNLOAD_BUSY and the second DOWNLOAD_IDLE, and on any other     *)
(* state the command fails and nothing more is sent.                        *)
C20_StatusContract ==
    \A k \in 1..Len(usb) :
        IsCommand(usb[k]) =>
            /\ k + 1 <= Len(usb) =>
                   /\ usb[k + 1].req = "GETSTATUS"
                   /\ usb[k + 1].state # DFU_STATE_DFU_DOWNLOAD_BUSY
                      => k + 1 = Len(usb) /\ Failed(k, usb[k + 1].state)
            /\ k + 2 <= Len(usb) =>
                   /\ usb[k + 2].req = "GETSTATUS"
                   /\ usb[k + 2].state # DFU_STATE_DFU_DOWNLOAD_IDLE
                      => k + 2 = Len(usb) /\ Failed(k, usb[k + 2].state)
            /\ (k + 3 <= Len(usb) \/ dfuPc \notin {"check_status", "raised"}) =>
                   /\ k + 2 <= Len(usb)
                   /\ IsStatus(usb[k + 1], DFU_STATE_DFU_DOWNLOAD_BUSY)
                   /\ IsStatus(usb[k + 2], DFU_STATE_DFU_DOWNLOAD_IDLE)

(* A chunk was sent after an erase and a set_address that went well, and    *)
(* its second status read was not DOWNLOAD_IDLE.                            *)
C20_Witness ==
    /\ Len(usb) = 9
    /\ usb[1].data[1] = 65
    /\ usb[4].data[1] = 33
    /\ usb[7].wValue = 2
    /\ IsStatus(usb[8], DFU_STATE_DFU_DOWNLOAD_BUSY)
    /\ IsStatus(usb[9], DFU_STATE_DFU_ERROR)
    /\ dfuPc = "raised"

----------------------------------------------------------------------------
(* pydfu.read_dfu_file, lines 324-426.                                      *)

(* struct "<I": an unsigned 32-bit number from 4 bytes, least byte first *)
UnpackI(b) == b[1] + 256 * b[2] + 65536 * b[3] + 16777216 * b[4]

PackI(n) == <<n % 256, (n \div 256) % 256, (n \div 65536) % 256, (n \div 16777216) % 256>>

(* zlib.crc32 on a 32-bit register kept as its 4 bytes, least byte first:   *)
(* the reflected polynomial 0xEDB88320, register and result complemented.   *)
CrcPolynomial == <<32, 131, 184, 237>>

ShiftRight(r) ==
    <<(r[1] \div 2) + 128 * (r[2] % 2),
      (r[2] \div 2) + 128 * (r[3] % 2),
      (r[3] \div 2) + 128 * (r[4] % 2),
      r[4] \div 2>>

Xor4(r, p) == <<Xor(r[1], p[1]), Xor(r[2], p[2]), Xor(r[3], p[3]), Xor(r[4], p[4])>>

CrcBit(r) ==
    IF r[1] % 2 = 1 THEN Xor4(ShiftRight(r), CrcPolynomial) ELSE ShiftRight(r)

CrcByte(r, b) ==
    CrcBit(CrcBit(CrcBit(CrcBit(CrcBit(CrcBit(CrcBit(CrcBit(
        <<Xor(r[1], b), r[2], r[3], r[4]>>))))))))

(* the register r after the bytes d[a+1..b]; r, always 4 bytes, is looked   *)
(* at before the bytes so that the nested calls are evaluated in order      *)
RECURSIVE CrcRegister(_, _, _, _)
CrcRegister(r, d, a, b) ==
    IF a >= b \/ Len(r) # 4 THEN r
    ELSE IF b = a + 1 THEN CrcByte(r, d[b])
    ELSE LET m == (a + b) \div 2
         IN  CrcRegister(CrcRegister(r, d, a, m), d, m, b)

Complement(r) == <<255 - r[1], 255 - r[2], 255 - r[3], 255 - r[4]>>

crc32(d) == Complement(CrcRegister(<<255, 255, 255, 255>>, d, 0, Len(d)))

(* Line 321: 0xFFFFFFFF & -zlib.crc32(data) - 1, the complement of the      *)
(* CRC32, as its 4 bytes.                                                   *)
compute_crc(d) == Complement(crc32(d))

(* struct.error of struct.unpack on a buffer that is too short *)
StructError(what) == [kind |-> "struct.error", value |-> what]

(* the locals of read_dfu_file before line 338 *)
ParseLocals ==
    [crc |-> <<>>, data |-> <<>>, targets |-> 0, target_idx |-> 0, target_data |-> <<>>,
     elements |-> 0, elem_idx |-> 0, result |-> <<>>, printed |-> <<>>]

(* Lines 336-353: the CRC of all bytes but the last 4 is computed and the   *)
(* prefix "<5sBIB" (11 bytes) is consumed.                                  *)
readPrefix ==
    /\ dfuPc = "read_dfu_file"
    /\ IF Len(dfuFile.bytes) < 11
       THEN /\ dfuPc' = "raised"
            /\ dfuRet' = StructError("prefix")
            /\ dfuParse' = dfuParse
       ELSE /\ dfuParse' = [dfuParse EXCEPT
                               !.crc = compute_crc(Slice(dfuFile.bytes, 0,
                                                         Len(dfuFile.bytes) - 4)),
                               !.data = Slice(dfuFile.bytes, 11, Len(dfuFile.bytes)),
                               !.targets = dfuFile.bytes[11]]
            /\ dfuPc' = "targets"
            /\ dfuRet' = dfuRet
    /\ UNCHANGED <<nonDfuVars, dfuIn, dfuL, usb, dfuProgress, dfuFile, layoutStr, layoutSt>>

(* Lines 354-380: the prefix "<6sBI255s2I" (274 bytes) of the next target   *)
(* is consumed; size is at offset 266 and elements at offset 270.           *)
readTarget ==
    /\ dfuPc = "targets"
    /\ dfuParse.target_idx < dfuParse.targets
    /\ LET rest == dfuParse.data
       IN  IF Len(rest) < 274
           THEN /\ dfuPc' = "raised"
                /\ dfuRet' = StructError("target")
                /\ dfuParse' = dfuParse
           ELSE LET target_size == UnpackI(Slice(rest, 266, 270))
                IN  /\ dfuParse' = [dfuParse EXCEPT
                                       !.elements = UnpackI(Slice(rest, 270, 274)),
                                       !.elem_idx = 0,
                                       !.target_data = Slice(rest, 274, 274 + target_size),
                                       !.data = Slice(rest, 274 + target_size, Len(rest))]
                    /\ dfuPc' = "elements"
                    /\ dfuRet' = dfuRet
    /\ UNCHANGED <<nonDfuVars, dfuIn, dfuL, usb, dfuProgress, dfuFile, layoutStr, layoutSt>>

(* Lines 381-395: the prefix "<2I" (8 bytes) of the next element is         *)
(* consumed and the element is appended with the bytes that are there.      *)
readElement ==
    /\ dfuPc = "elements"
    /\ dfuParse.elem_idx < dfuParse.elements
    /\ LET target_data == dfuParse.target_data
       IN  IF Len(target_data) < 8
           THEN /\ dfuPc' = "raised"
                /\ dfuRet' = StructError("element")
                /\ dfuParse' = dfuParse
           ELSE LET elem_size == UnpackI(Slice(target_data, 4, 8))
                    elem == [addr |-> UnpackI(Slice(target_data, 0, 4)),
                             size |-> elem_size,
                             num |-> dfuParse.elem_idx,
                             data |-> Slice(target_data, 8, 8 + elem_size)]
                IN  /\ dfuParse' = [dfuParse EXCEPT
                                       !.target_data = Slice(target_data, 8 + elem_size,
                                                             Len(target_data)),
                                       !.result = Append(@, elem),
                                       !.elem_idx = @ + 1]
                    /\ dfuPc' = dfuPc
                    /\ dfuRet' = dfuRet
    /\ UNCHANGED <<nonDfuVars, dfuIn, dfuL, usb, dfuProgress, dfuFile, layoutStr, layoutSt>>

(* Lines 381, 397-398: the elements of the target are read; bytes of the    *)
(* target that are left over are reported on the console and the loop goes  *)
(* on with the next target.                                                 *)
readTargetEnd ==
    /\ dfuPc = "elements"
    /\ dfuParse.elem_idx >= dfuParse.elements
    /\ dfuParse' = [dfuParse EXCEPT
                       !.target_idx = @ + 1,
                       !.printed = IF dfuParse.target_data # <<>>
                                   THEN Append(@, "target PARSE ERROR")
                                   ELSE @]
    /\ dfuPc' = "targets"
    /\ UNCHANGED <<nonDfuVars, dfuIn, dfuL, usb, dfuProgress, dfuRet, dfuFile,
                   layoutStr, layoutSt>>

(* the two failures read_dfu_file reports by returning None *)
ReturnNone(why) == [kind |-> "return", none |-> TRUE, value |-> <<>>, printed |-> why]

(* Lines 411-426: the suffix "<4H3sBI" is unpacked from the next 16 bytes,  *)
(* its crc field at offset 12 is compared, and nothing may follow it.       *)
readSuffix ==
    /\ dfuPc = "targets"
    /\ dfuParse.target_idx >= dfuParse.targets
    /\ LET rest == dfuParse.data
       IN  IF Len(rest) < 16
           THEN /\ dfuPc' = "raised"
                /\ dfuRet' = StructError("suffix")
           ELSE /\ dfuPc' = "returned"
                /\ dfuRet' = IF dfuParse.crc # Slice(rest, 12, 16)
                             THEN ReturnNone("CRC ERROR")
                             ELSE IF Slice(rest, 16, Len(rest)) # <<>>
                             THEN ReturnNone("PARSE ERROR")
                             ELSE [kind |-> "return", none |-> FALSE, value |-> dfuParse.result,
                                   printed |-> ""]
    /\ UNCHANGED <<nonDfuVars, dfuIn, dfuL, usb, dfuProgress, dfuFile, dfuParse,
                   layoutStr, layoutSt>>

(* Lines 625-626 (main): elements is what read_dfu_file returned; None and  *)
(* the empty list are both false in the test of line 627.                   *)
mainReadDfuFile ==
    /\ dfuPc = "returned"
    /\ dfuIn' = [caller |-> "main", mass_erase |-> FALSE, none |-> dfuRet.none,
                 elements |-> dfuRet.value, layout |-> <<>>, wTransferSize |-> 1]
    /\ dfuPc' = "path"
    /\ UNCHANGED <<nonDfuVars, dfuL, usb, dfuProgress, dfuRet, dfuFile, dfuParse,
                   layoutStr, layoutSt>>

(* Input files. *)

Replicate(n, b) == [i \in 1..n |-> b]

(* the prefix "DfuSe", version 1, size, targets *)
DfuPrefix(size, targets) == <<68, 102, 117, 83, 101, 1>> \o PackI(size) \o <<targets>>

(* a target prefix "Target", alternate setting 0, no name *)
TargetPrefix(size, elements) ==
    <<84, 97, 114, 103, 101, 116, 0>> \o PackI(0) \o Replicate(255, 0)
        \o PackI(size) \o PackI(elements)

ElementBytes(addr, bytes) == PackI(addr) \o PackI(Len(bytes)) \o bytes

(* the suffix up to its crc field: device 0, product 0xdf11, vendor 0x0483, *)
(* dfu 0x011a, "UFD", length 16                                             *)
SuffixHead == <<0, 0, 17, 223, 131, 4, 26, 1, 85, 70, 68, 16>>

(* the whole file of a body: suffix and CRC added *)
Signed(body) == body \o SuffixHead \o compute_crc(body \o SuffixHead)

(* a file of no target *)
FileNoTarget == Signed(DfuPrefix(11, 0))

(* another one, of version 2 and size 0 *)
FileNoTarget2 == Signed(<<68, 102, 117, 83, 101, 2>> \o PackI(0) \o <<0>>)

(* a file of one target with one element of 2 bytes at 0x08000000 *)
FileOneElement ==
    Signed(DfuPrefix(295, 1) \o TargetPrefix(10, 1) \o ElementBytes(FlashBase, <<17, 18>>))

(* the same with one more byte in the target than its element takes *)
FileSpareByte ==
    Signed(DfuPrefix(296, 1) \o TargetPrefix(11, 1)
               \o ElementBytes(FlashBase, <<17, 18>>) \o <<7>>)

(* FileNoTarget followed by 8 bytes, the first 4 chosen so that the CRC of  *)
(* all bytes but the last 4 is the crc field again                          *)
FileTrailing == FileNoTarget \o <<252, 92, 112, 254>> \o <<0, 0, 0, 0>>

(* FileOneElement followed by one byte *)
FileTrailingByte == FileOneElement \o <<0>>

(* FileNoTarget without its last byte *)
FileCut == Slice(FileNoTarget, 0, 26)

(* the offsets at which FileOneElement is changed: signature, version,      *)
(* size, targets; of the target: signature, alternate setting, named, name, *)
(* size, elements; of the element: address, size, data; of the suffix:      *)
(* device, dfu, "UFD", length                                               *)
ChangedOffsets ==
    {0, 5, 6, 10, 11, 17, 18, 22, 277, 278, 280, 281, 282, 284, 285, 288, 289, 292,
     293, 294, 295, 301, 303, 306}

(* a byte is changed in bit 0 or in bit 6 *)
Changes(b) == {Xor(b, 1), Xor(b, 64)}

Changed(f, at, to) == [f EXCEPT ![at + 1] = to]

(* The files read: the files above as they are, and every file that is      *)
(* FileNoTarget or FileOneElement with one byte outside the crc field       *)
(* changed; changed is the offset of that byte, -1 for none.                *)
DfuFiles ==
    {[bytes |-> f, changed |-> -1] :
        f \in {FileNoTarget, FileNoTarget2, FileOneElement, FileSpareByte, FileTrailing,
               FileTrailingByte, FileCut}}
    \cup UNION {{[bytes |-> Changed(FileNoTarget, at, to), changed |-> at] :
                    to \in Changes(FileNoTarget[at + 1])} :
                at \in 0..(Len(FileNoTarget) - 5)}
    \cup UNION {{[bytes |-> Changed(FileOneElement, at, to), changed |-> at] :
                    to \in Changes(FileOneElement[at + 1])} :
                at \in ChangedOffsets}

InitDfuFile ==
    /\ NoSerial
    /\ NoHex
    /\ NoChip
    /\ NoFlash
    /\ dfuIn = <<>>
    /\ dfuPc = "read_dfu_file"
    /\ dfuL = <<>>
    /\ usb = <<>>
    /\ dfuProgress = <<>>
    /\ dfuRet = [kind |-> "none"]
    /\ dfuFile \in DfuFiles
    /\ dfuParse = ParseLocals
    /\ layoutStr = <<>>
    /\ layoutSt = <<>>
    /\ NoApp

NextDfuFile ==
    \/ readPrefix
    \/ readTarget
    \/ readElement
    \/ readTargetEnd
    \/ readSuffix
    \/ mainReadDfuFile
    \/ sessionPath

SpecDfuFile == InitDfuFile /\ [][NextDfuFile]_vars

(* read_dfu_file is over: it returned or raised *)
ReadOver == dfuPc \notin {"read_dfu_file", "targets", "elements"}

(* the two files as written are accepted, with their elements *)
WrittenFilesAreAccepted ==
    (ReadOver /\ dfuFile.bytes \in {FileNoTarget, FileOneElement})
    => /\ dfuPc # "raised"
       /\ dfuParse.crc = Slice(dfuFile.bytes, Len(dfuFile.bytes) - 4, Len(dfuFile.bytes))
       /\ dfuFile.bytes = FileOneElement
          => dfuParse.result = <<[addr |-> FlashBase, size |-> 2, num |-> 0,
                                  data |-> <<17, 18>>]>>

(* C14: a file that is accepted, with one byte outside the crc field        *)
(* changed, makes read_dfu_file end with the CRC-mismatch failure, with no  *)
(* other outcome.                                                           *)
C14_ChangedByteIsCrcMismatch ==
    (ReadOver /\ dfuFile.changed >= 0)
    => /\ dfuPc # "raised"
       /\ dfuParse.crc # Slice(dfuParse.data, 12, 16)

(* The part of C14 that holds: no changed file yields a list of elements.   *)
ChangedByteYieldsNoElements ==
    (ReadOver /\ dfuFile.changed >= 0)
    => \/ dfuPc = "raised" /\ dfuRet.kind = "struct.error"
       \/ dfuPc # "raised" /\ dfuParse.crc # Slice(dfuParse.data, 12, 16)

(* FileOneElement with 65 targets declared: the second target prefix is     *)
(* not there, struct.unpack raises before the CRC is compared.              *)
ChangedTargetsRaised ==
    /\ dfuFile.changed = 10
    /\ dfuFile.bytes[11] = 65
    /\ dfuPc = "raised"
    /\ dfuRet = StructError("target")
    /\ dfuParse.target_idx = 1

(* a file of 27 bytes: a prefix that declares no target and a suffix whose  *)
(* crc field is the CRC of the 23 bytes before it                           *)
ZeroTargetsFile ==
    /\ Len(dfuFile.bytes) = 27
    /\ dfuFile.bytes[11] = 0
    /\ compute_crc(Slice(dfuFile.bytes, 0, 23)) = Slice(dfuFile.bytes, 23, 27)

(* main has tested the elements (line 627) *)
PathTaken == dfuIn # <<>> /\ dfuPc # "path"

(* C15 as stated: a file with a valid CRC that declares no target is read   *)
(* to an empty list without error, and main goes on with it as with any     *)
(* list of elements, to write_elements and exit_dfu.                        *)
C15_ZeroTargetsIsSuccess ==
    ZeroTargetsFile =>
        /\ dfuPc # "raised"
        /\ ReadOver => dfuRet.kind = "return"
        /\ dfuPc = "returned" => ~dfuRet.none /\ dfuRet.value = <<>>
        /\ PathTaken => dfuPc = "write_elements"

(* C15, amended: the file is read to an empty list without error; main      *)
(* then prints "No data in dfu file" and returns, as it does when           *)
(* read_dfu_file returned None.                                             *)
C15_ZeroTargetsIsNoData ==
    /\ ZeroTargetsFile =>
           /\ dfuPc # "raised"
           /\ ReadOver => dfuRet.kind = "return"
           /\ dfuPc = "returned" => ~dfuRet.none /\ dfuRet.value = <<>>
           /\ PathTaken => /\ ~dfuIn.none
                           /\ dfuIn.elements = <<>>
                           /\ dfuPc = "done"
                           /\ dfuRet.value = "No data in dfu file"
    /\ (PathTaken /\ dfuIn.none) => dfuPc = "done" /\ dfuRet.value = "No data in dfu file"

(* main is over on the file of no target *)
C15_Witness ==
    /\ dfuFile # <<>>
    /\ dfuFile.bytes = FileNoTarget
    /\ PathTaken
    /\ dfuParse.targets = 0
    /\ dfuPc = "done"

(* bytes were left in a target after its elements, or after the suffix *)
BytesLeftOver ==
    \/ dfuParse.printed # <<>>
    \/ dfuPc = "returned" /\ Len(dfuParse.data) > 16

(* C16: if bytes remain after the declared elements of a target or after    *)
(* the 16 bytes of the suffix, read_dfu_file fails and returns no elements. *)
C16_LeftoverBytesFail ==
    (dfuPc = "returned" /\ BytesLeftOver) => dfuRet.none

(* The part of C16 that holds: bytes after the suffix make read_dfu_file    *)
(* return None.                                                             *)
BytesAfterSuffixFail ==
    (dfuPc = "returned" /\ Len(dfuParse.data) > 16) => dfuRet.none

(* FileSpareByte: the spare byte of the target is reported on the console   *)
(* and the element is returned.                                             *)
SpareByteAccepted ==
    /\ dfuPc = "returned"
    /\ dfuFile.bytes = FileSpareByte
    /\ dfuParse.printed = <<"target PARSE ERROR">>
    /\ ~dfuRet.none
    /\ Len(dfuRet.value) = 1

(* FileTrailing: the CRC is right and the bytes after the suffix make       *)
(* read_dfu_file return None.                                               *)
TrailingBytesRefused ==
    /\ dfuPc = "returned"
    /\ dfuFile.bytes = FileTrailing
    /\ dfuRet = ReturnNone("PARSE ERROR")

----------------------------------------------------------------------------
(* pydfu.get_memory_layout, lines 450-487.  The descriptor is a sequence of *)
(* characters.                                                              *)

IsDigit(c) == \E k \in 1..10 : UpperDigits[k] = c

RECURSIVE DecimalValue(_)
DecimalValue(t) ==
    IF t = <<>> THEN 0
    ELSE 10 * DecimalValue(SubSeq(t, 1, Len(t) - 1)) + HexDigitValue(t[Len(t)])

(* int(t, 10) for a text of the regular expression's \d+ *)
IntDecimal(t) ==
    IF t = <<>> \/ \E k \in 1..Len(t) : ~IsDigit(t[k]) THEN ValueError ELSE DecimalValue(t)

(* int(t, 0): 0x or 0X and hexadecimal digits, or decimal digits that do    *)
(* not start with 0 unless they are all 0; anything else raises ValueError. *)
(* Signs, underscores and the prefixes 0o and 0b are in no input.           *)
IntAuto(t) ==
    LET u == Strip(t)
        hex == SubSeq(u, 3, Len(u))
    IN  IF Len(u) >= 2 /\ u[1] = "0" /\ u[2] \in {"x", "X"}
        THEN IF hex = <<>> \/ \E k \in 1..Len(hex) : ~IsHexDigit(hex[k])
             THEN ValueError
             ELSE DigitsValue(hex)
        ELSE IF u = <<>> \/ \E k \in 1..Len(u) : ~IsDigit(u[k]) THEN ValueError
        ELSE IF u[1] = "0" /\ \E k \in 1..Len(u) : u[k] # "0" THEN ValueError
        ELSE DecimalValue(u)

(* str.split(sep) *)
RECURSIVE Split(_, _)
Split(t, sep) ==
    IF \A k \in 1..Len(t) : t[k] # sep THEN <<t>>
    ELSE LET k == CHOOSE i \in 1..Len(t) : t[i] = sep /\ \A j \in 1..(i - 1) : t[j] # sep
         IN  <<SubSeq(t, 1, k - 1)>> \o Split(SubSeq(t, k + 1, Len(t)), sep)

(* the number of digits t starts with *)
DigitRun(t) ==
    CHOOSE n \in 0..Len(t) :
        /\ \A k \in 1..n : IsDigit(t[k])
        /\ n = Len(t) \/ ~IsDigit(t[n + 1])

(* Line 468: of the digits after the "*" the second group (\d+) takes as    *)
(* many as leave two characters for the groups (.)(.): all of them when     *)
(* two characters follow, fewer when not.                                   *)
SecondGroup(digits, after) == IF after >= 2 THEN digits ELSE digits - (2 - after)

(* Lines 468-473: seg_re.match(segment).groups() for (\d+)\*(\d+)(.)(.),    *)
(* the empty tuple when the segment does not match.                         *)
SegMatch(segment) ==
    LET n == DigitRun(segment)
        a == SubSeq(segment, n + 2, Len(segment))
        k == SecondGroup(DigitRun(a), Len(a) - DigitRun(a))
    IN  IF n = 0 \/ n = Len(segment) \/ segment[n + 1] # "*" \/ k < 1
        THEN <<>>
        ELSE <<SubSeq(segment, 1, n), SubSeq(a, 1, k), a[k + 1], a[k + 2]>>

(* K taken as 1000 and M as 1000 * 1000 *)
MultiplierDecimal(c) == IF c = "K" THEN 1000 ELSE IF c = "M" THEN 1000 * 1000 ELSE 1

(* the address after the segment taken as its last address *)
LastAddrAfter(addr, size) == addr + size

(* Line 479 *)
LastAddr(addr, size) == addr + size - 1

(* Lines 474-477 *)
Multiplier(c) == IF c = "K" THEN 1024 ELSE IF c = "M" THEN 1024 * 1024 ELSE 1

LayoutRaise(st, what) == [st EXCEPT !.pc = "raised", !.ret = [kind |-> what]]

(* Lines 462-464 *)
layoutSplit ==
    /\ layoutSt # <<>>
    /\ layoutSt.pc = "get_memory_layout"
    /\ layoutSt' = [layoutSt EXCEPT !.pc = "groups",
                                    !.mem_layout = Split(layoutStr.text, "/"),
                                    !.index = 1]
    /\ UNCHANGED <<nonDfuVars, dfuIn, dfuPc, dfuL, usb, dfuProgress, dfuRet, dfuFile,
                   dfuParse, layoutStr>>

(* Lines 465-468: the next pair of an address and a list of segments;       *)
(* mem_layout[index] of the code is element index + 1 of the sequence.      *)
layoutGroup ==
    /\ layoutSt # <<>>
    /\ layoutSt.pc = "groups"
    /\ layoutSt.index < Len(layoutSt.mem_layout)
    /\ LET addr == IntAuto(layoutSt.mem_layout[layoutSt.index + 1])
       IN  layoutSt' =
               IF addr = ValueError THEN LayoutRaise(layoutSt, "ValueError")
               ELSE IF layoutSt.index + 1 >= Len(layoutSt.mem_layout)
               THEN LayoutRaise(layoutSt, "IndexError")
               ELSE [layoutSt EXCEPT
                        !.pc = "segments",
                        !.addr = addr,
                        !.segments = Split(layoutSt.mem_layout[layoutSt.index + 2], ","),
                        !.segNo = 0]
    /\ UNCHANGED <<nonDfuVars, dfuIn, dfuPc, dfuL, usb, dfuProgress, dfuRet, dfuFile,
                   dfuParse, layoutStr>>

(* Lines 469-486: the next segment of the group is matched and appended,    *)
(* and addr moves on by its size.                                           *)
layoutSegment ==
    /\ layoutSt # <<>>
    /\ layoutSt.pc = "segments"
    /\ layoutSt.segNo < Len(layoutSt.segments)
    /\ LET groups == SegMatch(layoutSt.segments[layoutSt.segNo + 1])
       IN  layoutSt' =
               IF groups = <<>> THEN LayoutRaise(layoutSt, "AttributeError")
               ELSE LET num_pages == IntDecimal(groups[1])
                        page_size == IntDecimal(groups[2]) * Multiplier(groups[3])
                        size == num_pages * page_size
                    IN  [layoutSt EXCEPT
                            !.result = Append(@, [addr |-> layoutSt.addr,
                                                  last_addr |-> LastAddr(layoutSt.addr, size),
                                                  size |-> size,
                                                  num_pages |-> num_pages,
                                                  page_size |-> page_size]),
                            !.addr = @ + size,
                            !.segNo = @ + 1]
    /\ UNCHANGED <<nonDfuVars, dfuIn, dfuPc, dfuL, usb, dfuProgress, dfuRet, dfuFile,
                   dfuParse, layoutStr>>

(* Lines 465, 469: the segments of the group are done, the next group is    *)
(* two elements on.                                                         *)
layoutGroupEnd ==
    /\ layoutSt # <<>>
    /\ layoutSt.pc = "segments"
    /\ layoutSt.segNo >= Len(layoutSt.segments)
    /\ layoutSt' = [layoutSt EXCEPT !.pc = "groups", !.index = @ + 2]
    /\ UNCHANGED <<nonDfuVars, dfuIn, dfuPc, dfuL, usb, dfuProgress, dfuRet, dfuFile,
                   dfuParse, layoutStr>>

(* Lines 465, 487 *)
layoutReturn ==
    /\ layoutSt # <<>>
    /\ layoutSt.pc = "groups"
    /\ layoutSt.index >= Len(layoutSt.mem_layout)
    /\ layoutSt' = [layoutSt EXCEPT !.pc = "done", !.ret = [kind |-> "return"]]
    /\ UNCHANGED <<nonDfuVars, dfuIn, dfuPc, dfuL, usb, dfuProgress, dfuRet, dfuFile,
                   dfuParse, layoutStr>>

(* Descriptors.  A descriptor is written from its groups, each a base      *)
(* address and segments of a page count, a page size, a multiplier          *)
(* character and the type character "g", the way a device prints them:      *)
(* "/0x%08x/" and "%02d*%03d%c%c" joined by ",".                            *)

MaxGroups == 2
MaxSegments == 2

RECURSIVE DecimalText(_)
DecimalText(n) ==
    IF n < 10 THEN <<UpperDigits[n + 1]>>
    ELSE Append(DecimalText(n \div 10), UpperDigits[(n % 10) + 1])

RECURSIVE Pad(_, _)
Pad(t, n) == IF Len(t) >= n THEN t ELSE Pad(<<"0">> \o t, n)

SegmentText(seg) ==
    Pad(DecimalText(seg.count), 2) \o <<"*">> \o Pad(DecimalText(seg.size), 3)
        \o <<seg.mult, "g">>

RECURSIVE Join(_, _)
Join(texts, sep) ==
    IF Len(texts) = 1 THEN texts[1]
    ELSE texts[1] \o <<sep>> \o Join(Tail(texts), sep)

GroupText(group) ==
    <<"/", "0", "x">> \o Pad(HexDigits(group.base), 8) \o <<"/">>
        \o Join([j \in 1..Len(group.segments) |-> SegmentText(group.segments[j])], ",")

RECURSIVE GroupsText(_)
GroupsText(groups) ==
    IF groups = <<>> THEN <<>> ELSE GroupText(Head(groups)) \o GroupsText(Tail(groups))

FlashName == <<"@", "F", "l", "a", "s", "h">>

DescriptorText(groups) == FlashName \o GroupsText(groups)

(* the segments of the flash of an STM32F4, and pages counted in megabytes  *)
(* and in bytes                                                             *)
SegmentKinds ==
    <<[count |-> 4, size |-> 16, mult |-> "K"],
      [count |-> 1, size |-> 64, mult |-> "K"],
      [count |-> 7, size |-> 128, mult |-> "K"],
      [count |-> 2, size |-> 1, mult |-> "M"],
      [count |-> 8, size |-> 512, mult |-> " "]>>

SegmentLists ==
    {SubSeq(SegmentKinds, p[1], p[1] + p[2] - 1) :
        p \in {q \in (1..Len(SegmentKinds)) \X (1..MaxSegments) :
                   q[1] + q[2] - 1 <= Len(SegmentKinds)}}

(* groups at 0x08000000 and at 0x08010000, where 4 pages of 16K end *)
Groups ==
    {[base |-> b, segments |-> segs] :
        b \in {FlashBase, FlashBase + 65536}, segs \in SegmentLists}

RECURSIVE GroupLists(_)
GroupLists(n) ==
    IF n = 0 THEN {<<>>}
    ELSE GroupLists(n - 1)
         \cup {Append(gs, g) : gs \in {l \in GroupLists(n - 1) : Len(l) = n - 1}, g \in Groups}

(* descriptors that are not written that way: the address in decimal       *)
(* digits; no segments after the address; an address that int(x, 0) does   *)
(* not take; a "," with nothing after it; a segment without its multiplier *)
DecimalBase ==
    [text |-> FlashName \o <<"/">> \o DecimalText(FlashBase) \o <<"/">>
                  \o SegmentText(SegmentKinds[1]),
     groups |-> <<[base |-> FlashBase, segments |-> <<SegmentKinds[1]>>]>>,
     written |-> TRUE]

Unwritten(text) == [text |-> text, groups |-> <<>>, written |-> FALSE]

NoSegments == Unwritten(FlashName \o <<"/", "0", "x", "0", "8", "0", "0", "0", "0", "0", "0">>)

LeadingZero ==
    Unwritten(FlashName \o <<"/", "0", "8", "0", "0", "0", "0", "0", "0", "/">>
                  \o SegmentText(SegmentKinds[1]))

TrailingComma ==
    Unwritten(DescriptorText(<<[base |-> FlashBase, segments |-> <<SegmentKinds[1]>>]>>)
                  \o <<",">>)

NoMultiplier ==
    Unwritten(FlashName \o <<"/", "0", "x", "0", "/", "0", "4", "*", "0", "1", "6", "g">>)

Descriptors ==
    {[text |-> DescriptorText(gs), groups |-> gs, written |-> TRUE] : gs \in GroupLists(MaxGroups)}
    \cup {DecimalBase, NoSegments, LeadingZero, TrailingComma, NoMultiplier}

InitLayout ==
    /\ NoSerial
    /\ NoHex
    /\ NoChip
    /\ NoFlash
    /\ dfuIn = <<>>
    /\ dfuPc = "idle"
    /\ dfuL = <<>>
    /\ usb = <<>>
    /\ dfuProgress = <<>>
    /\ dfuRet = [kind |-> "none"]
    /\ dfuFile = <<>>
    /\ dfuParse = <<>>
    /\ layoutStr \in Descriptors
    /\ layoutSt = [pc |-> "get_memory_layout", mem_layout |-> <<>>, index |-> 0, addr |-> 0,
                   segments |-> <<>>, segNo |-> 0, result |-> <<>>, ret |-> [kind |-> "none"]]
    /\ NoApp

NextLayout ==
    \/ layoutSplit
    \/ layoutGroup
    \/ layoutSegment
    \/ layoutGroupEnd
    \/ layoutReturn

SpecLayout == InitLayout /\ [][NextLayout]_vars

(* "@Flash/0x08000000/04*016Kg,01*064Kg" *)
Descriptor17 ==
    <<"@", "F", "l", "a", "s", "h", "/", "0", "x", "0", "8", "0", "0", "0", "0", "0", "0",
      "/", "0", "4", "*", "0", "1", "6", "K", "g", ",", "0", "1", "*", "0", "6", "4", "K", "g">>

(* get_memory_layout has returned *)
LayoutReturned == layoutSt.pc = "done"

(* what a claim says of a segment: its first and last address, its number   *)
(* of pages and the size of a page                                          *)
IsSegment(r, addr, last_addr, num_pages, page_size) ==
    /\ r.addr = addr
    /\ r.last_addr = last_addr
    /\ r.num_pages = num_pages
    /\ r.page_size = page_size

(* C17 as stated: the descriptor yields the segments 0x08000000-0x08003FFF  *)
(* of 4 pages of 16K and 0x08004000-0x08013FFF of 1 page of 64K.            *)
C17_SegmentsOf16KAnd64K ==
    (LayoutReturned /\ layoutStr.text = Descriptor17)
    => /\ Len(layoutSt.result) = 2
       /\ IsSegment(layoutSt.result[1], 134217728, 134234111, 4, 16384)
       /\ IsSegment(layoutSt.result[2], 134234112, 134299647, 1, 65536)

(* C17, amended: the descriptor "@Flash/0x08000000/04*016Kg,01*064Kg"       *)
(* yields exactly two segments, 0x08000000-0x0800FFFF of 4 pages of 16K and *)
(* 0x08010000-0x0801FFFF of 1 page of 64K, and does not fail.               *)
C17_FourPagesThenOne ==
    layoutStr.text = Descriptor17
    => /\ layoutSt.pc # "raised"
       /\ LayoutReturned
          => /\ Len(layoutSt.result) = 2
             /\ IsSegment(layoutSt.result[1], 134217728, 134283263, 4, 16384)
             /\ IsSegment(layoutSt.result[2], 134283264, 134348799, 1, 65536)

C17_Witness ==
    /\ layoutStr.text = Descriptor17
    /\ LayoutReturned
    /\ Len(layoutSt.result) = 2

(* the multiplier a character stands for: K = 1024, M = 1024 * 1024, any    *)
(* other = 1                                                                *)
Times1024(c) == IF c = "K" THEN 1024 ELSE IF c = "M" THEN 1048576 ELSE 1

(* the segments written before group g of a descriptor *)
RECURSIVE SegmentsBefore(_, _)
SegmentsBefore(groups, g) ==
    IF g = 1 THEN 0 ELSE SegmentsBefore(groups, g - 1) + Len(groups[g - 1].segments)

C19_SortedAndDisjoint ==
    LayoutReturned =>
        \A k \in 1..(Len(layoutSt.result) - 1) :
            /\ layoutSt.result[k].addr <= layoutSt.result[k + 1].addr
            /\ layoutSt.result[k].last_addr < layoutSt.result[k + 1].addr

(* The group at 0x08010000 written before the group at 0x08000000: the      *)
(* segments are returned in that order.                                     *)
GroupsReturnedAsWritten ==
    /\ LayoutReturned
    /\ Len(layoutSt.result) = 2
    /\ layoutSt.result[1].addr = FlashBase + 65536
    /\ layoutSt.result[2].addr = FlashBase

(* "04*016g": the digit 6 is taken for the multiplier and the page is 1     *)
(* byte.                                                                    *)
NoMultiplierReadsADigit ==
    /\ LayoutReturned
    /\ layoutStr = NoMultiplier
    /\ layoutSt.result = <<[addr |-> 0, last_addr |-> 3, size |-> 4, num_pages |-> 4,
                            page_size |-> 1]>>

----------------------------------------------------------------------------
(* pydfu.init, lines 113-146, and what its callers do with its outcome:     *)
(* main (line 611) goes on; DFUTool.__init__.w (lines 909-917) starts the   *)
(* thread after it and prints any Exception it raised.                      *)

DFU_STATE_APP_IDLE == 0
DFU_STATE_DFU_UPLOAD_IDLE == 9

(* the attempts of the loop of line 139 *)
InitAttempts == 4

(* the states a device is polled in *)
PolledStates == DfuStates \cup {DFU_STATE_APP_IDLE, DFU_STATE_DFU_UPLOAD_IDLE}

(* every non-idle state answered with CLRSTATUS *)
RecoveryAlwaysClears(status) == "CLRSTATUS"

(* Lines 143-146: the request sent after a poll that was not DFU_IDLE *)
Recovery(status) ==
    IF status = DFU_STATE_DFU_DOWNLOAD_IDLE \/ status = DFU_STATE_DFU_UPLOAD_IDLE
    THEN "ABORT"
    ELSE "CLRSTATUS"

(* Lines 116-125: exactly one DFU device has to be found. *)
initDevices ==
    /\ dfuPc = "init"
    /\ IF dfuIn.devices = 1
       THEN /\ dfuPc' = "poll"
            /\ dfuRet' = dfuRet
       ELSE /\ dfuPc' = "raised"
            /\ dfuRet' = [kind |-> "ValueError",
                          value |-> IF dfuIn.devices = 0 THEN "No DFU device found"
                                    ELSE "Multiple DFU devices found"]
    /\ UNCHANGED <<nonDfuVars, dfuIn, dfuL, usb, dfuProgress, dfuFile, dfuParse,
                   layoutStr, layoutSt>>

(* Lines 139-142: one more attempt; get_status may raise USBError. *)
initPoll ==
    /\ dfuPc = "poll"
    /\ dfuL.attempt < InitAttempts
    /\ \/ \E status \in PolledStates :
              /\ usb' = Append(usb, GetStatus(status))
              /\ dfuL' = [dfuL EXCEPT !.status = status]
              /\ dfuPc' = IF status = DFU_STATE_DFU_IDLE THEN "returned" ELSE "recover"
              /\ dfuRet' = dfuRet
       \/ /\ dfuPc' = "raised"
          /\ dfuRet' = USBError
          /\ UNCHANGED <<usb, dfuL>>
    /\ UNCHANGED <<nonDfuVars, dfuIn, dfuProgress, dfuFile, dfuParse, layoutStr, layoutSt>>

(* Lines 143-146, 149-156: abort_request or clr_status, then the next       *)
(* attempt.                                                                 *)
initRecover ==
    /\ dfuPc = "recover"
    /\ \E o \in TransferOutcomes :
           IF o = "ok"
           THEN /\ usb' = Append(usb, [req |-> Recovery(dfuL.status)])
                /\ dfuL' = [dfuL EXCEPT !.attempt = @ + 1]
                /\ dfuPc' = "poll"
                /\ dfuRet' = dfuRet
           ELSE /\ dfuPc' = "raised"
                /\ dfuRet' = USBError
                /\ UNCHANGED <<usb, dfuL>>
    /\ UNCHANGED <<nonDfuVars, dfuIn, dfuProgress, dfuFile, dfuParse, layoutStr, layoutSt>>

(* Line 139: the loop is over after the last attempt and init returns. *)
initExhausted ==
    /\ dfuPc = "poll"
    /\ dfuL.attempt >= InitAttempts
    /\ dfuPc' = "returned"
    /\ UNCHANGED <<nonDfuVars, dfuIn, dfuL, usb, dfuProgress, dfuRet, dfuFile, dfuParse,
                   layoutStr, layoutSt>>

(* Lines 611-619 (main) and 912-916 (w): after init has returned the        *)
(* session is started; an exception of init ends main and is printed by w,  *)
(* which starts nothing.                                                    *)
initCaller ==
    /\ \/ /\ dfuPc = "returned"
          /\ dfuPc' = "session"
       \/ /\ dfuPc = "raised"
          /\ dfuIn.caller = "w"
          /\ dfuPc' = "printed"
    /\ UNCHANGED <<nonDfuVars, dfuIn, dfuL, usb, dfuProgress, dfuRet, dfuFile, dfuParse,
                   layoutStr, layoutSt>>

InitDfuInit ==
    /\ NoSerial
    /\ NoHex
    /\ NoChip
    /\ NoFlash
    /\ dfuIn \in {[caller |-> c, devices |-> n] : c \in {"main", "w"}, n \in 0..2}
    /\ dfuPc = "init"
    /\ dfuL = [attempt |-> 0, status |-> DFU_STATE_APP_IDLE]
    /\ usb = <<>>
    /\ dfuProgress = <<>>
    /\ dfuRet = [kind |-> "none"]
    /\ dfuFile = <<>>
    /\ dfuParse = <<>>
    /\ layoutStr = <<>>
    /\ layoutSt = <<>>
    /\ NoApp

NextDfuInit ==
    \/ initDevices
    \/ initPoll
    \/ initRecover
    \/ initExhausted
    \/ initCaller

SpecDfuInit == InitDfuInit /\ [][NextDfuInit]_vars

(* the polls of the log *)
Polls == {k \in 1..Len(usb) : usb[k].req = "GETSTATUS"}

PolledIdle == \E k \in Polls : usb[k].state = DFU_STATE_DFU_IDLE

(* The polling of C21: at most 4 polls, none after a DFU_IDLE, and after    *)
(* every other poll ABORT for DOWNLOAD_IDLE and UPLOAD_IDLE and CLRSTATUS   *)
(* for any other state.                                                     *)
InitPolling ==
    /\ Cardinality(Polls) <= 4
    /\ \A k \in Polls :
           /\ usb[k].state = DFU_STATE_DFU_IDLE => k = Len(usb)
           /\ k < Len(usb) =>
                  usb[k + 1].req =
                      (IF usb[k].state \in {DFU_STATE_DFU_DOWNLOAD_IDLE, DFU_STATE_DFU_UPLOAD_IDLE}
                       THEN "ABORT" ELSE "CLRSTATUS")
    /\ \A k \in 1..Len(usb) : k \notin Polls => k > 1 /\ (k - 1) \in Polls

(* C21: init polls as above, and if none of the 4 polls returned DFU_IDLE   *)
(* it reports a failure to its caller and no session is started.            *)
C21_InitHandshake ==
    /\ InitPolling
    /\ ~(dfuPc \in {"returned", "session"} /\ ~PolledIdle)

(* Four polls answered DFU_ERROR, DOWNLOAD_IDLE, UPLOAD_IDLE and DFU_ERROR: *)
(* init has returned and the session is started.                            *)
StartedWithoutIdle ==
    /\ dfuPc = "session"
    /\ Len(usb) = 8
    /\ usb[1] = GetStatus(DFU_STATE_DFU_ERROR)
    /\ usb[2].req = "CLRSTATUS"
    /\ usb[3] = GetStatus(DFU_STATE_DFU_DOWNLOAD_IDLE)
    /\ usb[4].req = "ABORT"
    /\ usb[5] = GetStatus(DFU_STATE_DFU_UPLOAD_IDLE)
    /\ usb[6].req = "ABORT"
    /\ usb[7] = GetStatus(DFU_STATE_DFU_ERROR)
    /\ usb[8].req = "CLRSTATUS"

----------------------------------------------------------------------------
(* Erasing and writing of flash pages, read from the log of USB requests    *)
(* of a session (SpecDfu).                                                  *)

(* the page_erase requests of the log (the mass erase request is 1 byte) *)
Erases ==
    {k \in 1..Len(usb) : /\ usb[k].req = "DNLOAD"
                         /\ usb[k].wValue = 0
                         /\ Len(usb[k].data) = 5
                         /\ usb[k].data[1] = 65}

(* the set_address requests of the log *)
SetAddresses ==
    {k \in 1..Len(usb) : /\ usb[k].req = "DNLOAD"
                         /\ usb[k].wValue = 0
                         /\ Len(usb[k].data) = 5
                         /\ usb[k].data[1] = 33}

(* the requests that carry firmware data *)
Writes == {k \in 1..Len(usb) : usb[k].req = "DNLOAD" /\ usb[k].wValue = 2}

(* the address of the request at index k *)
AddressOf(k) == UnpackI(SubSeq(usb[k].data, 2, 5))

(* the last set_address before index k, 0 if there is none *)
AddressSetBefore(k) ==
    LET before == {j \in SetAddresses : j < k}
    IN  IF before = {} THEN 0 ELSE CHOOSE j \in before : \A i \in before : i <= j

(* the addresses that the write at index k stores data at *)
WrittenAt(k) ==
    IF AddressSetBefore(k) = 0 THEN {}
    ELSE {AddressOf(AddressSetBefore(k)) + i : i \in 0..(Len(usb[k].data) - 1)}

(* the page of address a in the memory layout of the session, -1 if no      *)
(* segment holds a                                                          *)
PageOf(a) ==
    LET s == SegmentOf(dfuIn.layout, a)
    IN  IF s = 0 THEN -1 ELSE PageAddr(a, dfuIn.layout[s].page_size)

ErasedOnce == \A e1, e2 \in Erases : AddressOf(e1) = AddressOf(e2) => e1 = e2

ErasedBeforeWritten ==
    \A k \in Writes : \A a \in WrittenAt(k) :
        /\ PageOf(a) # -1
        /\ \E e \in Erases : e < k /\ AddressOf(e) = PageOf(a)

NotErasedAfterWritten ==
    \A e \in Erases : \A k \in Writes :
        k < e => \A a \in WrittenAt(k) : PageOf(a) # AddressOf(e)

(* C22: without mass erase every page that receives data is erased exactly  *)
(* once, before every write into it and never after one, and no data is     *)
(* written to an address whose page was not erased.                         *)
C22_ErasedOnceBeforeWritten ==
    ~dfuIn.mass_erase => ErasedOnce /\ ErasedBeforeWritten /\ NotErasedAfterWritten

(* every address of every element lies in a segment of the layout *)
ElementsInLayout ==
    \A k \in 1..Len(dfuIn.elements) :
        \A i \in 0..(dfuIn.elements[k].size - 1) :
            SegmentOf(dfuIn.layout, dfuIn.elements[k].addr + i) # 0

(* every segment of the layout starts at a multiple of its page size *)
AlignedLayout ==
    \A k \in 1..Len(dfuIn.layout) :
        PageAddr(dfuIn.layout[k].addr, dfuIn.layout[k].page_size) = dfuIn.layout[k].addr

(* One element inside an aligned layout: its pages are erased once each,    *)
(* before the writes into them.                                             *)
OneElementErasedOnceBeforeWritten ==
    (~dfuIn.mass_erase /\ Len(dfuIn.elements) = 1 /\ ElementsInLayout /\ AlignedLayout)
        => ErasedOnce /\ ErasedBeforeWritten /\ NotErasedAfterWritten

(* The second element starts in the page the first one was written into:    *)
(* the page is erased again after the write.                                *)
PageErasedAfterWrite ==
    /\ ~dfuIn.mass_erase
    /\ Len(dfuIn.layout) = 1
    /\ Len(dfuIn.elements) = 2
    /\ dfuIn.elements[1].addr = FlashBase
    /\ dfuIn.elements[1].size = 1
    /\ dfuIn.elements[2].addr = FlashBase + 1
    /\ ~NotErasedAfterWritten
    /\ ~ErasedOnce

(* No segment of the layout holds the address: data is written to a page    *)
(* that was not erased.                                                     *)
WrittenWithoutErase ==
    /\ ~dfuIn.mass_erase
    /\ dfuIn.layout = <<>>
    /\ Writes # {}
    /\ Erases = {}
    /\ \E k \in Writes : WrittenAt(k) # {}

----------------------------------------------------------------------------
(* write_memory (lines 219-254) in the log of a session (SpecDfu).          *)

(* the log ends with the request m and its two status reads *)
EndsWithCompleted(log, m) ==
    /\ Len(log) >= 3
    /\ log[Len(log) - 2] = m
    /\ log[Len(log) - 1] = GetStatus(DFU_STATE_DFU_DOWNLOAD_BUSY)
    /\ log[Len(log)] = GetStatus(DFU_STATE_DFU_DOWNLOAD_IDLE)

(* the chunk with number k (from 0) of buffer b cut into pieces of w bytes *)
ChunkNo(b, k, w) ==
    SubSeq(b, k * w + 1, IF (k + 1) * w < Len(b) THEN (k + 1) * w ELSE Len(b))

(* C23: the buffer goes out in consecutive chunks of wTransferSize bytes,   *)
(* only the last may be shorter; each chunk's DNLOAD comes right after a    *)
(* completed set_address(base + k * wTransferSize), k the number of the     *)
(* chunk, and is followed by the busy and idle status reads.                *)
C23_ChunksAtSetAddresses ==
    LET w == dfuIn.wTransferSize
        k == dfuL.xfer_count
        set == Dnload(0, PackBI(33, dfuL.xfer_base + k * w))
    IN  /\ dfuPc = "chunk" =>
               /\ k * w < Len(dfuL.buf)
               /\ EndsWithCompleted(usb, set)
        /\ dfuPc = "count" =>
               /\ EndsWithCompleted(usb, Dnload(2, ChunkNo(dfuL.buf, k, w)))
               /\ EndsWithCompleted(SubSeq(usb, 1, Len(usb) - 3), set)
               /\ Len(ChunkNo(dfuL.buf, k, w)) \in 1..w
               /\ Len(ChunkNo(dfuL.buf, k, w)) < w => k * w + Len(ChunkNo(dfuL.buf, k, w)) = Len(dfuL.buf)
        /\ \A i \in Writes :
               /\ Len(usb[i].data) <= w
               /\ i > 3
               /\ (i - 3) \in SetAddresses
               /\ usb[i - 2] = GetStatus(DFU_STATE_DFU_DOWNLOAD_BUSY)
               /\ usb[i - 1] = GetStatus(DFU_STATE_DFU_DOWNLOAD_IDLE)
               /\ i < Len(usb) => usb[i + 1].req = "GETSTATUS"

(* A buffer of 3 bytes with wTransferSize 2: the second, shorter chunk has  *)
(* gone out after set_address(base + 2).                                    *)
C23_Witness ==
    /\ dfuPc = "count"
    /\ dfuIn.wTransferSize = 2
    /\ Len(dfuL.buf) = 3
    /\ dfuL.xfer_count = 1
    /\ usb[Len(usb) - 2] = Dnload(2, <<19>>)
    /\ usb[Len(usb) - 5] = Dnload(0, PackBI(33, dfuL.xfer_base + 2))

----------------------------------------------------------------------------
(* The worker threads: stk500v2Thread (stk500v2.py lines 192-258) with      *)
(* runProgrammer (lines 261-266), and DFUTool (pydfu.py lines 932-989).     *)
(* The protocol steps are taken by their outcomes: each one completes or    *)
(* raises; the steps themselves are modelled above.                         *)

State(text) == [signal |-> "str", value |-> text]

Error(kind) == [signal |-> "Exception", value |-> kind]

(* the thread has returned from run and from done, or was killed *)
Ended == thread.pc \in {"ended", "killed"}

(* e was raised in the try block of run: SystemExit is no Exception and     *)
(* goes past the except clause (stk500v2.py line 223, pydfu.py line 955).   *)
RunRaises(e) ==
    [thread EXCEPT !.pc = IF e = "SystemExit" THEN "finally" ELSE "except", !.raised = e]

(* stk500v2.py lines 207-219: run up to the call of connect. *)
avrRun ==
    /\ thread.kind = "avr"
    /\ thread.pc = "run"
    /\ thread' = [thread EXCEPT !.isWork = TRUE, !.programmer = TRUE, !.pc = "connect"]
    /\ emitted' = IF thread.parent = "None" THEN emitted
                  ELSE Append(emitted, State("Connecting..."))
    /\ UNCHANGED <<transport, win, tasks, serialVars, hexVars, chipVars, flashVars, dfuVars>>

(* stk500v2.py lines 29-38: connect is called on self.programmer, which     *)
(* terminate may have set to None; the port has to exist and to be free.    *)
(* runProgrammer (line 264) calls it on its own argument.                   *)
avrConnect ==
    /\ thread.kind = "avr"
    /\ thread.pc = "connect"
    /\ IF thread.parent # "None" /\ ~thread.programmer
       THEN thread' = RunRaises("AttributeError")
       ELSE \E o \in {"ok", "errorInvalid", "errorBusy"} :
                thread' = IF o = "ok" THEN [thread EXCEPT !.pc = "open"] ELSE RunRaises("portError")
    /\ UNCHANGED <<transport, emitted, win, tasks, serialVars, hexVars, chipVars, flashVars,
                   dfuVars>>

(* stk500v2.py lines 41-45, 51-65: the port is opened and entryISP runs. *)
avrOpen ==
    /\ thread.kind = "avr"
    /\ thread.pc = "open"
    /\ \E o \in {"ok", "errorOpen", "IspError"} :
           /\ thread' = IF o = "ok" THEN [thread EXCEPT !.pc = "program"]
                        ELSE IF o = "errorOpen" THEN RunRaises("portError")
                        ELSE RunRaises("IspError")
           /\ transport' = IF o = "errorOpen" THEN transport ELSE "open"
    /\ UNCHANGED <<emitted, win, tasks, serialVars, hexVars, chipVars, flashVars, dfuVars>>

(* stk500v2.py lines 221-222 and 265-266: programChip(readHex(filename));   *)
(* runProgrammer closes the port after it.                                  *)
avrProgram ==
    /\ thread.kind = "avr"
    /\ thread.pc = "program"
    /\ emitted' = IF thread.parent = "None" THEN emitted
                  ELSE Append(emitted, State("Programming..."))
    /\ IF thread.parent # "None" /\ ~thread.programmer
       THEN /\ thread' = RunRaises("AttributeError")
            /\ transport' = transport
       ELSE \E o \in {"ok", "formatError", "IspError"} :
                /\ thread' = IF o = "ok" THEN [thread EXCEPT !.pc = "finally"] ELSE RunRaises(o)
                /\ transport' = IF o = "ok" /\ thread.parent = "None" THEN "closed"
                                ELSE transport
    /\ UNCHANGED <<win, tasks, serialVars, hexVars, chipVars, flashVars, dfuVars>>

(* stk500v2.py lines 223-232, pydfu.py lines 955-964: the except clause up  *)
(* to the wait for the parent, or to isWork = False.                        *)
runExcept ==
    /\ thread.pc = "except"
    /\ IF thread.interruption
       THEN /\ thread' = [thread EXCEPT !.isWork = FALSE, !.pc = "finally"]
            /\ emitted' = emitted
       ELSE IF thread.parent # "None"
       THEN /\ thread' = [thread EXCEPT !.pc = "wait"]
            /\ emitted' = Append(emitted, Error(thread.raised))
       ELSE /\ thread' = [thread EXCEPT !.pc = "finally"]
            /\ emitted' = emitted
    /\ UNCHANGED <<transport, win, tasks, serialVars, hexVars, chipVars, flashVars, dfuVars>>

(* stk500v2.py lines 229-233, pydfu.py lines 961-965: the loop ends once    *)
(* the parent has cleared isWork.                                           *)
runWait ==
    /\ thread.pc = "wait"
    /\ ~thread.isWork
    /\ thread' = [thread EXCEPT !.pc = "finally"]
    /\ UNCHANGED <<transport, emitted, win, tasks, serialVars, hexVars, chipVars, flashVars,
                   dfuVars>>

(* firmwareInstaller.py lines 500-502, 534-536: stateUpdate, the slot of    *)
(* the parent for an emitted Exception.                                     *)
stateUpdateError ==
    /\ thread.pc = "wait"
    /\ thread.isWork
    /\ thread' = [thread EXCEPT !.interruption = TRUE, !.isWork = FALSE]
    /\ UNCHANGED <<transport, emitted, win, tasks, serialVars, hexVars, chipVars, flashVars,
                   dfuVars>>

(* stk500v2.py lines 234-238: self.programmer.isConnected() raises          *)
(* AttributeError once terminate has set self.programmer to None.           *)
AvrFinally ==
    IF thread.programmer
    THEN [raised |-> thread.raised, transport |-> "closed"]
    ELSE [raised |-> "AttributeError", transport |-> transport]

avrFinally ==
    /\ thread.kind = "avr"
    /\ thread.pc = "finally"
    /\ thread' = [thread EXCEPT !.programmer = FALSE, !.raised = AvrFinally.raised,
                                !.pc = "finished"]
    /\ transport' = AvrFinally.transport
    /\ UNCHANGED <<emitted, win, tasks, serialVars, hexVars, chipVars, flashVars, dfuVars>>

(* pydfu.py lines 932-953: the file is read and, with a parent, written by  *)
(* write_elements, whose check_status raises SystemExit.                    *)
dfuRun ==
    /\ thread.kind = "dfu"
    /\ thread.pc = "run"
    /\ \E o \in {"ok", "OSError"} :
           /\ thread' = IF o = "ok"
                        THEN [thread EXCEPT !.isWork = TRUE,
                                            !.pc = IF thread.parent = "None" THEN "exit_dfu"
                                                   ELSE "write_elements"]
                        ELSE [RunRaises(o) EXCEPT !.isWork = TRUE]
           /\ emitted' = IF o = "ok" /\ thread.parent # "None"
                         THEN Append(emitted, State("Programming..."))
                         ELSE emitted
    /\ UNCHANGED <<transport, win, tasks, serialVars, hexVars, chipVars, flashVars, dfuVars>>

dfuWriteElements ==
    /\ thread.kind = "dfu"
    /\ thread.pc = "write_elements"
    /\ \E o \in {"ok", "USBError", "SystemExit"} :
           thread' = IF o = "ok" THEN [thread EXCEPT !.pc = "exit_dfu"] ELSE RunRaises(o)
    /\ UNCHANGED <<transport, emitted, win, tasks, serialVars, hexVars, chipVars, flashVars,
                   dfuVars>>

(* pydfu.py lines 288-296: dispose_resources is called after get_status in  *)
(* the same try block, so not when get_status raises.                       *)
ExitDfuReleases(o) == IF o = "ok" THEN "released" ELSE transport

(* pydfu.py lines 280-296, called at line 954. *)
dfuExitDfu ==
    /\ thread.kind = "dfu"
    /\ thread.pc = "exit_dfu"
    /\ \/ \E e \in {"USBError", "SystemExit"} :
              /\ thread' = RunRaises(e)
              /\ transport' = transport
       \/ \E o \in {"ok", "USBError"} :
              /\ thread' = [thread EXCEPT !.pc = "finally"]
              /\ transport' = ExitDfuReleases(o)
    /\ UNCHANGED <<emitted, win, tasks, serialVars, hexVars, chipVars, flashVars, dfuVars>>

(* pydfu.py lines 966-967 *)
DfuFinally == Append(emitted, State("Done!"))

(* An exception that leaves run may end the interpreter before the          *)
(* finished signal is delivered.                                            *)
dfuFinally ==
    /\ thread.kind = "dfu"
    /\ thread.pc = "finally"
    /\ emitted' = DfuFinally
    /\ \E next \in IF thread.raised = "SystemExit" THEN {"finished", "ended"} ELSE {"finished"} :
           thread' = [thread EXCEPT !.pc = next]
    /\ UNCHANGED <<transport, win, tasks, serialVars, hexVars, chipVars, flashVars, dfuVars>>

(* stk500v2.py lines 243-251, pydfu.py lines 972-981: done, the slot of     *)
(* the thread's finished signal.                                            *)
threadDone ==
    /\ thread.pc = "finished"
    /\ thread' = [thread EXCEPT !.pc = "ended",
                                !.isWork = IF thread.parent # "None" THEN FALSE ELSE @]
    /\ emitted' = IF thread.parent # "None" /\ thread.isWork
                  THEN Append(emitted, State("Done!"))
                  ELSE emitted
    /\ UNCHANGED <<transport, win, tasks, serialVars, hexVars, chipVars, flashVars, dfuVars>>

(* stk500v2.py lines 253-258 and pydfu.py lines 984-989: terminate, called  *)
(* while the thread is running.                                             *)
terminate ==
    /\ ~Ended
    /\ ~thread.terminated
    /\ IF thread.kind = "avr"
       THEN IF thread.programmer
            THEN /\ thread' = [thread EXCEPT !.interruption = TRUE, !.programmer = FALSE,
                                             !.terminated = TRUE, !.kill = TRUE]
                 /\ transport' = "closed"
            ELSE /\ thread' = [thread EXCEPT !.terminated = TRUE]
                 /\ transport' = transport
       ELSE /\ thread' = [thread EXCEPT !.interruption = TRUE, !.terminated = TRUE,
                                        !.kill = TRUE]
            /\ transport' = transport
    /\ UNCHANGED <<emitted, win, tasks, serialVars, hexVars, chipVars, flashVars, dfuVars>>

(* QThread.terminate: the thread ends where it is, at once or later. *)
threadKilled ==
    /\ thread.kill
    /\ ~Ended
    /\ thread' = [thread EXCEPT !.pc = "killed"]
    /\ UNCHANGED <<transport, emitted, win, tasks, serialVars, hexVars, chipVars, flashVars,
                   dfuVars>>

InitWorker ==
    /\ NoSerial
    /\ NoHex
    /\ NoChip
    /\ NoFlash
    /\ NoDfu
    /\ \E kind \in {"avr", "dfu"}, parent \in {"window", "None"} :
           /\ thread = [kind |-> kind, parent |-> parent, pc |-> "run", isWork |-> FALSE,
                        programmer |-> FALSE, interruption |-> FALSE, raised |-> "none",
                        terminated |-> FALSE, kill |-> FALSE]
           /\ transport = IF kind = "avr" THEN "closed" ELSE "claimed"
    /\ emitted = <<>>
    /\ win = <<>>
    /\ tasks = <<>>

NextWorker ==
    \/ avrRun
    \/ avrConnect
    \/ avrOpen
    \/ avrProgram
    \/ runExcept
    \/ runWait
    \/ stateUpdateError
    \/ avrFinally
    \/ dfuRun
    \/ dfuWriteElements
    \/ dfuExitDfu
    \/ dfuFinally
    \/ threadDone
    \/ terminate
    \/ threadKilled

SpecWorker == InitWorker /\ [][NextWorker]_vars

Released == transport \in {"closed", "released"}

(* C24: on every exit path of a session the transport is released before    *)
(* the session ends: the serial port closed, the USB device released.       *)
C24_ReleasedOnEveryExit == Ended => Released

(* Without terminate the serial port is closed when an AVR session ends. *)
AvrPortClosedAtEnd == (thread.kind = "avr" /\ ~thread.terminated /\ Ended) => Released

(* write_elements raised USBError; the session has ended with the device    *)
(* still claimed.                                                           *)
DfuErrorLeavesDeviceClaimed ==
    /\ thread.kind = "dfu"
    /\ thread.pc = "ended"
    /\ ~thread.terminated
    /\ thread.raised = "USBError"
    /\ transport = "claimed"

(* The session went well, but the status read after the leave request       *)
(* raised: the device is not released.                                      *)
DfuSuccessLeavesDeviceClaimed ==
    /\ thread.kind = "dfu"
    /\ thread.pc = "ended"
    /\ ~thread.terminated
    /\ thread.raised = "none"
    /\ transport = "claimed"

(* C25: terminate was called on the running session; once the session has  *)
(* ended the transport is closed or released.                               *)
C25_ReleasedAfterTerminate == (thread.terminated /\ Ended) => Released

(* terminate during write_elements: the thread is killed and the device     *)
(* stays claimed.                                                           *)
DfuTerminateLeavesDeviceClaimed ==
    /\ thread.kind = "dfu"
    /\ thread.pc = "killed"
    /\ thread.terminated
    /\ transport = "claimed"

(* terminate during connect, before the port is opened: the port is opened  *)
(* after terminate has closed it, and the session ends with the port open.  *)
AvrTerminateLeavesPortOpen ==
    /\ thread.kind = "avr"
    /\ Ended
    /\ thread.terminated
    /\ transport = "open"

Count(signals, m) == Cardinality({k \in 1..Len(signals) : signals[k] = m})

Successes == Count(emitted, State("Done!"))

Failures == Cardinality({k \in 1..Len(emitted) : emitted[k].signal = "Exception"})

(* C27: a session delivers exactly one terminal result to its caller, the   *)
(* success signal when every step completed or one failure signal when a    *)
(* step failed; never both and never the success signal after a failure.    *)
C27_OneTerminalResult ==
    (thread.parent = "window" /\ ~thread.terminated) =>
        /\ Successes + Failures <= 1
        /\ thread.raised # "none" => Successes = 0
        /\ thread.pc = "ended" =>
               /\ Successes + Failures = 1
               /\ Failures = 1 <=> thread.raised # "none"

(* The AVR session delivers one terminal result. *)
AvrOneTerminalResult == thread.kind = "avr" => C27_OneTerminalResult

(* check_status raised SystemExit in write_elements: the session has ended  *)
(* with the success signal and no failure signal.                           *)
DfuSuccessAfterFailedStatus ==
    /\ thread.kind = "dfu"
    /\ thread.parent = "window"
    /\ ~thread.terminated
    /\ thread.pc = "ended"
    /\ thread.raised = "SystemExit"
    /\ Failures = 0
    /\ Successes >= 1

(* write_elements raised USBError: the failure signal and then the success  *)
(* signal are delivered.                                                    *)
DfuBothResults ==
    /\ thread.kind = "dfu"
    /\ thread.parent = "window"
    /\ ~thread.terminated
    /\ thread.raised = "USBError"
    /\ emitted = <<State("Programming..."), Error("USBError"), State("Done!")>>

----------------------------------------------------------------------------
(* mainWindow (firmwareInstaller.py): the Install and Stop buttons, the two *)
(* timers whose timeout calls portUpdate, and the slots of the worker       *)
(* threads' signals. A worker thread is taken by its life cycle only.       *)

(* the worker threads that may be created *)
MaxTasks == 3

(* line 508: the retries of a port error *)
TryAgainLimit == 20

(* the first entry of QSerialPortInfo.availablePorts(): none, a port with   *)
(* product identifier 0, an STM32 port (vendor 1155) or another port        *)
Devices == {"none", "zero", "stm", "avr"}

(* QThread.isRunning *)
isRunning(t) == t.state \in {"running", "waiting"}

Task(kind) ==
    [kind |-> kind, state |-> IF kind = "dfu" THEN "searching" ELSE "running",
     isWork |-> TRUE, interruption |-> FALSE, connected |-> TRUE]

(* Lines 425-458: stopInstall(succeed, autoInstall) on window w and threads *)
(* ts; terminate ends the thread.                                           *)
stopInstall(w, ts, succeed, autoInstall) ==
    LET w1 == IF autoInstall THEN w ELSE [w EXCEPT !.installBtn = TRUE, !.tryAgain = 0]
    IN  IF succeed
        THEN [win |-> [w1 EXCEPT !.task = 0], tasks |-> ts]
        ELSE IF w.task # 0 /\ isRunning(ts[w.task])
        THEN [win |-> w1,
              tasks |-> [ts EXCEPT ![w.task].connected = FALSE,
                                   ![w.task].state = IF ts[w.task].interruption THEN @
                                                     ELSE "finished"]]
        ELSE [win |-> w1, tasks |-> ts]

(* Lines 331-423: installFile; `opened` is the outcome of serial.open (line *)
(* 391), `selected` whether the port combo box has a current entry (line    *)
(* 360).                                                                    *)
installFile(w, ts, opened, selected) ==
    LET w1 == [w EXCEPT !.autoTimer = FALSE]
        w2 == IF w.device = "zero" THEN [w1 EXCEPT !.autoTimer = TRUE] ELSE w1
        started == [w2 EXCEPT !.installBtn = FALSE, !.task = Len(ts) + 1]
    IN  IF ~w.file THEN [win |-> w, tasks |-> ts]
        ELSE IF w.device = "none" THEN [win |-> w1, tasks |-> ts]
        ELSE IF ~w.auto /\ ~selected THEN [win |-> w1, tasks |-> ts]
        ELSE IF w.device = "stm"
        THEN IF opened THEN [win |-> started, tasks |-> Append(ts, Task("dfu"))]
             ELSE [win |-> w2, tasks |-> ts]
        ELSE IF w.device = "avr" THEN [win |-> started, tasks |-> Append(ts, Task("avr"))]
        ELSE [win |-> [w2 EXCEPT !.installBtn = FALSE], tasks |-> ts]

(* Lines 245-267: portUpdate; the manual branch only fills the combo box. *)
portUpdate(w, ts, opened, selected) ==
    IF w.auto /\ w.device \notin {"none", "zero"} /\ ~w.installBtn
    THEN installFile(w, ts, opened, selected)
    ELSE [win |-> w, tasks |-> ts]

(* a user action: win.since notes what happened to the window last, a user *)
(* action, the end of a session without error, or the error of a session   *)
Acted(r) == [r EXCEPT !.win.since = "user"]

Becomes(r) ==
    /\ win' = r.win
    /\ tasks' = r.tasks
    /\ UNCHANGED <<thread, transport, emitted, serialVars, hexVars, chipVars, flashVars,
                   dfuVars>>

(* Line 239: the Install button is clicked. *)
installClicked ==
    /\ win.installBtn
    /\ Len(tasks) < MaxTasks
    /\ \E opened, selected \in BOOLEAN :
           Becomes(Acted(installFile(win, tasks, opened, selected)))

(* Lines 73, 78: the timeout of portUpdateTimer or of autoTimer. *)
timerTimeout ==
    /\ win.portUpdateTimer \/ win.autoTimer
    /\ Len(tasks) < MaxTasks
    /\ \E opened, selected \in BOOLEAN : Becomes(portUpdate(win, tasks, opened, selected))

(* Line 241: the Stop button is clicked. *)
stopClicked ==
    /\ ~win.installBtn
    /\ Becomes(Acted(stopInstall(win, tasks, FALSE, FALSE)))

(* Lines 221, 234, 281-282: one of the radio buttons is clicked. *)
radioClicked ==
    /\ win.installBtn
    /\ \E auto \in BOOLEAN :
           Becomes(Acted([win |-> IF auto THEN [win EXCEPT !.auto = TRUE]
                                  ELSE [win EXCEPT !.auto = FALSE, !.autoCheck = FALSE,
                                                   !.autoTimer = FALSE,
                                                   !.portUpdateTimer = TRUE],
                          tasks |-> tasks]))

(* Lines 284-294: autoStateChangeAction, the Auto Install box is toggled. *)
autoStateChangeAction ==
    /\ win.auto
    /\ LET check == ~win.autoCheck
           r == IF ~check /\ win.autoTimer
                THEN stopInstall(win, tasks, FALSE, FALSE)
                ELSE [win |-> win, tasks |-> tasks]
       IN  Becomes(Acted([r EXCEPT !.win.autoCheck = check,
                                   !.win.portUpdateTimer = ~check,
                                   !.win.autoTimer = check]))

(* the ports of the machine change: a device is plugged in or taken away *)
deviceChanged ==
    /\ \E d \in Devices \ {win.device} :
           Becomes(Acted([win |-> [win EXCEPT !.device = d], tasks |-> tasks]))

(* the exceptions a worker emits: portError with errorInvalid or errorBusy  *)
(* ("portError"), portError with errorOpen, IspError, formatError and any   *)
(* other (lines 507-532)                                                    *)
Errors == {"portError", "errorOpen", "IspError", "formatError", "Exception"}

(* Lines 480-538: stateUpdate(e) with an Exception e on window w and        *)
(* threads ts.  The slot works on self.task, whichever thread emitted e,    *)
(* and raises AttributeError at line 484 when self.task is None.  `ready`   *)
(* is self.task.isReady() (line 484).                                       *)
StateUpdate(w, ts, e, ready) ==
    IF w.task = 0
    THEN [win |-> [w EXCEPT !.since = e], tasks |-> ts]
    ELSE LET t == w.task
             ts1 == [ts EXCEPT ![t].interruption = TRUE]
             w1 == IF ready THEN [w EXCEPT !.tryAgain = 0] ELSE w
             again == \/ e = "portError" /\ w1.tryAgain < TryAgainLimit
                      \/ e = "IspError" /\ w1.autoCheck
             r == IF again
                  THEN stopInstall([w1 EXCEPT !.tryAgain = IF e = "portError" THEN @ + 1 ELSE @],
                                   ts1, FALSE, TRUE)
                  ELSE stopInstall(w1, ts1, FALSE, FALSE)
         IN  [win |-> [r.win EXCEPT !.task = 0, !.since = e,
                                    !.autoTimer = IF again THEN TRUE ELSE @],
              tasks |-> [r.tasks EXCEPT ![t].isWork = FALSE]]

(* isReady of a DFUTool is always True (pydfu.py lines 970-971); that of a  *)
(* stk500v2Thread tells whether its port is open (stk500v2.py lines         *)
(* 240-241).                                                                *)
IsReady(w, ts, ready) == w.task # 0 /\ ts[w.task].kind = "dfu" => ready

(* pydfu.py lines 901-917, 1002-1015: the search of a DFUTool ends.  A      *)
(* device was found and the thread is started (run sets isWork, line 934);  *)
(* or init raised and nothing is started (lines 914-916); or no device was  *)
(* found and w emits portError(errorOpen) to stateUpdate (lines 902-907).   *)
taskSearched ==
    \E i \in 1..Len(tasks) :
        /\ tasks[i].state = "searching"
        /\ \/ Becomes([win |-> win,
                       tasks |-> [tasks EXCEPT ![i].state = "running", ![i].isWork = TRUE]])
           \/ Becomes([win |-> win, tasks |-> [tasks EXCEPT ![i].state = "finished"]])
           \/ \E ready \in BOOLEAN :
                  /\ IsReady(win, tasks, ready)
                  /\ Becomes(StateUpdate(win, [tasks EXCEPT ![i].state = "finished"],
                                         "errorOpen", ready))

(* Lines 480-538: stateUpdate with an Exception emitted by the running      *)
(* thread i, which then waits for isWork to be cleared (stk500v2.py lines   *)
(* 228-231, pydfu.py lines 961-963).                                        *)
stateUpdate ==
    \E i \in 1..Len(tasks), e \in Errors, ready \in BOOLEAN :
        /\ tasks[i].state = "running"
        /\ IsReady(win, tasks, ready)
        /\ Becomes(StateUpdate(win, [tasks EXCEPT ![i].state = "waiting"], e, ready))

(* Lines 460-470: a thread ends; autoAction is the slot of its finished     *)
(* signal unless stopInstall has disconnected it.                           *)
taskFinished ==
    \E i \in 1..Len(tasks) :
        /\ \/ tasks[i].state = "running"
           \/ tasks[i].state = "waiting" /\ ~tasks[i].isWork
        /\ LET ts == [tasks EXCEPT ![i].state = "finished"]
               r == stopInstall([win EXCEPT !.task = 0], ts, TRUE, win.autoCheck)
           IN  IF tasks[i].connected
               THEN Becomes([r EXCEPT !.win.autoTimer = IF win.autoCheck THEN TRUE ELSE @,
                                      !.win.since = IF tasks[i].state = "running"
                                                    THEN "finished" ELSE @])
               ELSE Becomes([win |-> win, tasks |-> ts])

InitWindow ==
    /\ NoSerial
    /\ NoHex
    /\ NoChip
    /\ NoFlash
    /\ NoDfu
    /\ thread = <<>>
    /\ transport = "none"
    /\ emitted = <<>>
    /\ \E file \in BOOLEAN, d \in Devices :
           win = [file |-> file, device |-> d, auto |-> TRUE, autoCheck |-> FALSE,
                  installBtn |-> TRUE, task |-> 0, autoTimer |-> FALSE,
                  portUpdateTimer |-> TRUE, tryAgain |-> 0, since |-> "user"]
    /\ tasks = <<>>

NextWindow ==
    \/ installClicked
    \/ timerTimeout
    \/ stopClicked
    \/ radioClicked
    \/ autoStateChangeAction
    \/ deviceChanged
    \/ taskSearched
    \/ stateUpdate
    \/ taskFinished

SpecWindow == InitWindow /\ [][NextWindow]_vars

(* the threads that were started and have not ended *)
Active == {i \in 1..Len(tasks) : isRunning(tasks[i])}

(* C26: under every interleaving of Install clicks, timer ticks and worker  *)
(* completion there are never two sessions active: installFile starts no    *)
(* new worker task while one it started before is still running.            *)
C26_OneActiveSession == Cardinality(Active) <= 1

(* An AVR installation is running and a timer tick has started a second     *)
(* one on the same port.                                                    *)
SecondTaskStartedByTimer ==
    /\ Len(tasks) = 2
    /\ win.device = "avr"
    /\ tasks[1] = Task("avr")
    /\ tasks[2] = Task("avr")
    /\ win.task = 2

----------------------------------------------------------------------------
(* recvMessage, lines 159-172: the two ways back to state Start.            *)

(* the byte read next is not the token, in state Token *)
TokenMismatch == pc = "recv" /\ rx # <<>> /\ state = "Token" /\ Head(rx) # TOKEN

(* the XOR of the frame with the byte read next is not 0, in state Checksum *)
ChecksumMismatch ==
    pc = "recv" /\ rx # <<>> /\ state = "Checksum" /\ Xor(checksum, Head(rx)) # 0

(* C28: a byte other than 0x0E in state Token, and a non-zero XOR at the    *)
(* checksum byte in state Checksum, move the receiver to Start; it goes on  *)
(* with the bytes that follow, raises nothing and returns nothing.          *)
C28_MismatchRestartsScan ==
    [][(TokenMismatch \/ ChecksumMismatch) =>
           /\ state' = "Start"
           /\ pc' = "recv"
           /\ ret' = ret
           /\ rx' = Tail(rx)]_vars

(* the frame f with one byte replaced *)
Damaged(f) == {g \in {[f EXCEPT ![i] = b] : i \in 1..Len(f), b \in GarbageBytes} : g # f}

(* recvMessage started on a damaged copy of a frame followed by the frame   *)
(* as it was built, then silence.                                           *)
InitRecvDamaged ==
    /\ \E s \in FrameSeqs, d \in SeqsUpTo(PayloadBytes, MaxPayload) :
           \E g \in Damaged(BuildMessage(s, d)) :
               stream = [garbage |-> g, seq |-> s, payload |-> d]
    /\ rx = stream.garbage \o BuildMessage(stream.seq, stream.payload)
    /\ seq = 1
    /\ pc = "recv"
    /\ op = "recvMessage"
    /\ request = <<>>
    /\ wire = <<>>
    /\ state = "Start"
    /\ checksum = 0
    /\ msgSize = 0
    /\ data = <<>>
    /\ ret = NoRet
    /\ NoHex
    /\ NoChip
    /\ NoFlash
    /\ NoDfu
    /\ NoApp

SpecRecvDamaged == InitRecvDamaged /\ [][NextRecv]_vars

(* The receiver is back in Start after a size was read and no token: a byte *)
(* other than 0x0E was read in state Token.                                 *)
RestartedAfterToken == pc = "recv" /\ state = "Start" /\ msgSize # 0 /\ data = <<>>

(* The receiver is back in Start with a full payload read: the checksum     *)
(* byte did not match.                                                      *)
RestartedAfterChecksum ==
    pc = "recv" /\ state = "Start" /\ data # <<>> /\ Len(data) = msgSize /\ checksum # 0

----------------------------------------------------------------------------
(* readHex, lines 23-26, on files with lines that are not records.          *)

Blank == <<>>
Spaces == <<" ", " ">>
OneDigit == <<"1">>
Semicolon == <<";">> \o Tail(EndOfFile)

PlainLines == {DataAB, EndOfFile, NoColon, Blank, Spaces, OneDigit, Semicolon}

InitHexPlain ==
    /\ lines \in SeqsUpTo(PlainLines, MaxLines)
    /\ lineNo = 0
    /\ hexData = [len |-> 0, mem |-> <<>>]
    /\ extraAddr = 0
    /\ hexRet = NoRet
    /\ NoSerial
    /\ NoChip
    /\ NoFlash
    /\ NoDfu
    /\ NoApp

SpecHexPlain == InitHexPlain /\ [][NextHex]_vars

(* the line, stripped as readHex strips it, does not begin with ':' *)
WithoutColon(line) == Strip(line) = <<>> \/ Strip(line)[1] # ":"

(* C29: every line read that does not begin with ':', an empty or           *)
(* whitespace-only line and a line too short for the fixed fields included, *)
(* makes readHex fail with formatError; it is not skipped and no other      *)
(* error is raised.                                                         *)
C29_NoColonIsFormatError ==
    (lineNo >= 1 /\ WithoutColon(lines[lineNo])) => hexRet.kind = "formatError"

(* A line with at least one character other than a blank, the first of them *)
(* not ':', makes readHex fail with formatError.                            *)
TextWithoutColonIsFormatError ==
    (lineNo >= 1 /\ Strip(lines[lineNo]) # <<>> /\ Strip(lines[lineNo])[1] # ":")
        => hexRet.kind = "formatError"

(* An empty line after a data record: readHex has raised IndexError. *)
BlankLineIsIndexError ==
    /\ lineNo = 2
    /\ lines[1] = DataAB
    /\ lines[2] = Blank
    /\ hexRet.kind = "IndexError"

(* A line of blanks only: readHex has raised IndexError. *)
SpacesLineIsIndexError ==
    /\ lineNo = 1
    /\ lines[1] = Spaces
    /\ hexRet.kind = "IndexError"

(* A line of one digit: readHex has raised formatError. *)
ShortLineIsFormatError ==
    /\ lineNo = 1
    /\ lines[1] = OneDigit
    /\ hexRet.kind = "formatError"

----------------------------------------------------------------------------
(* read_dfu_file, lines 378-395, on signed files of one target whose        *)
(* elements declare their size rightly or too large.                        *)

(* the bytes an element may carry *)
MaxData == 2

(* how much more than it carries an element may declare *)
MaxOver == 1

(* an element as written into a file: its address, the size its prefix      *)
(* declares and its data                                                    *)
WrittenElements(addr) ==
    {[addr |-> addr, size |-> n + over, data |-> Firmware(n)] :
        n \in 0..MaxData, over \in 0..MaxOver}

WrittenLists ==
    {<<e>> : e \in WrittenElements(FlashBase)}
    \cup {<<e1, e2>> : e1 \in WrittenElements(FlashBase),
                       e2 \in WrittenElements(FlashBase + 16)}

RECURSIVE TargetBytes(_)
TargetBytes(es) ==
    IF es = <<>> THEN <<>>
    ELSE PackI(Head(es).addr) \o PackI(Head(es).size) \o Head(es).data
             \o TargetBytes(Tail(es))

(* the signed file of one target with the elements es *)
FileOf(es) ==
    Signed(DfuPrefix(285 + Len(TargetBytes(es)), 1)
               \o TargetPrefix(Len(TargetBytes(es)), Len(es))
               \o TargetBytes(es))

InitDfuElements ==
    /\ NoSerial
    /\ NoHex
    /\ NoChip
    /\ NoFlash
    /\ NoApp
    /\ dfuIn = <<>>
    /\ dfuPc = "read_dfu_file"
    /\ dfuL = <<>>
    /\ usb = <<>>
    /\ dfuProgress = <<>>
    /\ dfuRet = [kind |-> "none"]
    /\ \E es \in WrittenLists : dfuFile = [bytes |-> FileOf(es), changed |-> -1, written |-> es]
    /\ dfuParse = ParseLocals
    /\ layoutStr = <<>>
    /\ layoutSt = <<>>

NextDfuElements ==
    \/ readPrefix
    \/ readTarget
    \/ readElement
    \/ readTargetEnd
    \/ readSuffix

SpecDfuElements == InitDfuElements /\ [][NextDfuElements]_vars

(* read_dfu_file has returned a list of elements *)
ElementsReturned == dfuPc = "returned" /\ dfuRet.kind = "return" /\ ~dfuRet.none

(* C30: every element returned carries exactly `size` data bytes, the       *)
(* elements are in the order of the file, and a target whose payload is     *)
(* shorter than its elements declare yields no truncated element.           *)
C30_ElementsCarrySizeBytes ==
    ElementsReturned =>
        /\ Len(dfuRet.value) = Len(dfuFile.written)
        /\ \A k \in 1..Len(dfuRet.value) :
               /\ Len(dfuRet.value[k].data) = dfuRet.value[k].size
               /\ dfuRet.value[k].num = k - 1
               /\ dfuRet.value[k].addr = dfuFile.written[k].addr

(* The elements of a file whose elements declare their size rightly are     *)
(* returned as written, in the order of the file.                           *)
RightSizesReturnedAsWritten ==
    (ReadOver /\ \A k \in 1..Len(dfuFile.written) :
                     dfuFile.written[k].size = Len(dfuFile.written[k].data))
        => /\ ElementsReturned
           /\ Len(dfuRet.value) = Len(dfuFile.written)
           /\ \A k \in 1..Len(dfuRet.value) :
                  /\ dfuRet.value[k].addr = dfuFile.written[k].addr
                  /\ dfuRet.value[k].size = dfuFile.written[k].size
                  /\ dfuRet.value[k].data = dfuFile.written[k].data
                  /\ dfuRet.value[k].num = k - 1

(* The last element declares 3 bytes and the target holds 2: the element is *)
(* returned with size 3 and 2 bytes of data.                                *)
TruncatedElementReturned ==
    /\ ElementsReturned
    /\ dfuFile.written = <<[addr |-> FlashBase, size |-> 3, data |-> Firmware(2)]>>
    /\ dfuRet.value = <<[addr |-> FlashBase, size |-> 3, num |-> 0, data |-> Firmware(2)]>>

----------------------------------------------------------------------------
(* Leaving DFU mode (exit_dfu).                                             *)

(* the DNLOAD of length 0 *)
Leave == Dnload(0, <<>>)

(* the positions of the log where the DNLOAD of length 0 went out *)
Leaves == {k \in 1..Len(usb) : usb[k] = Leave}

(* exit_dfu has returned *)
ExitReturned == dfuPc = "done" /\ dfuRet = [kind |-> "return", value |-> "Finished"]

(* C31: exit_dfu completes set_address(0x08000000) with its busy and idle   *)
(* status reads, then sends the DNLOAD of length 0, then reads the status   *)
(* at most once (once unless the read itself fails); whatever state is      *)
(* read, and when the read fails, exit_dfu returns and the session ends     *)
(* without a failure.                                                       *)
C31_ExitDfu ==
    /\ \A k \in Leaves :
           /\ EndsWithCompleted(SubSeq(usb, 1, k - 1), Dnload(0, PackBI(33, 134217728)))
           /\ k >= Len(usb) - 1
           /\ k = Len(usb) - 1 => usb[Len(usb)].req = "GETSTATUS"
           /\ dfuPc \in {"manifest", "done"}
           /\ dfuPc = "manifest" => k = Len(usb)
    /\ dfuPc = "manifest" => Leaves # {}
    /\ ExitReturned => Leaves # {}
    /\ dfuPc = "raised" => Leaves = {}

(* exit_dfu returned after the device reported dfuERROR to the last read *)
C31_Witness ==
    /\ ExitReturned
    /\ Len(usb) >= 2
    /\ usb[Len(usb)] = GetStatus(DFU_STATE_DFU_ERROR)
    /\ usb[Len(usb) - 1] = Leave

(* exit_dfu returned after the last read failed: no status is in the log *)
ExitReturnedAfterFailedRead ==
    /\ ExitReturned
    /\ Len(usb) >= 1
    /\ usb[Len(usb)] = Leave

----------------------------------------------------------------------------
(* stk500v2Thread.run step by step, with terminate called from the parent   *)
(* (mainWindow.stopInstall) at any point of it.  The serial port is taken   *)
(* by the log of the calls made on it: transport is a sequence of "open",   *)
(* "write", "read", "dtr" and "close".  The thread has a parent window.     *)

(* the sendMessage calls of entryISP: sign-on and enter programming mode    *)
(* (stk500v2.py lines 60, 64)                                               *)
EntryExchanges == 2

(* the sendMessage calls of one run: those of entryISP and one command of   *)
(* programChip                                                              *)
MaxExchanges == 3

(* QSerialPort.isOpen after the calls of log: the last "open" comes after   *)
(* the last "close"                                                         *)
IsOpen(log) ==
    \E i \in 1..Len(log) :
        /\ log[i] = "open"
        /\ \A j \in (i + 1)..Len(log) : log[j] # "close"

(* self.programmer is read: None raises AttributeError *)
WithProgrammer(then) ==
    IF thread.programmer THEN then ELSE RunRaises("AttributeError")

(* stk500v2.py lines 41-45: the port is opened, entryISP is entered (lines  *)
(* 51-57).                                                                  *)
runOpen ==
    /\ thread.pc = "open"
    /\ \E o \in {"ok", "errorOpen"} :
           IF o = "ok"
           THEN /\ transport' = transport \o <<"open", "dtr">>
                /\ thread' = [thread EXCEPT !.pc = "write"]
           ELSE /\ transport' = transport
                /\ thread' = RunRaises("portError")
    /\ UNCHANGED <<emitted, win, tasks, serialVars, hexVars, chipVars, flashVars, dfuVars>>

(* stk500v2.py lines 114-127: sendMessage writes the message and flushes;   *)
(* QIODevice.write on a closed port returns -1 and raises nothing.          *)
runWrite ==
    /\ thread.pc = "write"
    /\ transport' = Append(transport, "write")
    /\ thread' = [thread EXCEPT !.pc = "read"]
    /\ UNCHANGED <<emitted, win, tasks, serialVars, hexVars, chipVars, flashVars, dfuVars>>

(* the run goes on after exchange number step has returned: line 221 after  *)
(* entryISP, the next command of programChip, or the end of the try block   *)
AfterExchange(step) ==
    IF step < EntryExchanges THEN "write"
    ELSE IF step = EntryExchanges THEN "program"
    ELSE IF step < MaxExchanges THEN "write"
    ELSE "finally"

(* stk500v2.py lines 129-132: waitForReadyRead(100) and recvMessage; a      *)
(* closed port is never ready.                                              *)
runRead ==
    /\ thread.pc = "read"
    /\ \/ /\ IsOpen(transport)
          /\ transport' = Append(transport, "read")
          /\ thread' = [thread EXCEPT !.step = @ + 1, !.pc = AfterExchange(thread.step + 1)]
       \/ /\ transport' = transport
          /\ thread' = RunRaises("IspError")
    /\ UNCHANGED <<emitted, win, tasks, serialVars, hexVars, chipVars, flashVars, dfuVars>>

(* stk500v2.py lines 221-222: "Programming..." is emitted, readHex reads    *)
(* the file and programChip is called on self.programmer.                   *)
runProgramChip ==
    /\ thread.pc = "program"
    /\ emitted' = Append(emitted, State("Programming..."))
    /\ \E o \in {"ok", "formatError"} :
           thread' = WithProgrammer(IF o = "ok" THEN [thread EXCEPT !.pc = "write"]
                                    ELSE RunRaises(o))
    /\ UNCHANGED <<transport, win, tasks, serialVars, hexVars, chipVars, flashVars, dfuVars>>

(* an exception raised in the finally block leaves run *)
FinallyRaises(e) == [thread EXCEPT !.raised = e, !.pc = "finished"]

(* stk500v2.py line 235: self.programmer.isConnected() *)
finallyIsConnected ==
    /\ thread.pc = "finally"
    /\ thread' = IF ~thread.programmer THEN FinallyRaises("AttributeError")
                 ELSE [thread EXCEPT !.pc = IF IsOpen(transport) THEN "fastReset" ELSE "clear"]
    /\ UNCHANGED <<transport, emitted, win, tasks, serialVars, hexVars, chipVars, flashVars,
                   dfuVars>>

(* stk500v2.py lines 236, 108-111: self.programmer.fastReset() *)
finallyFastReset ==
    /\ thread.pc = "fastReset"
    /\ IF ~thread.programmer
       THEN /\ thread' = FinallyRaises("AttributeError")
            /\ transport' = transport
       ELSE /\ thread' = [thread EXCEPT !.pc = "close"]
            /\ transport' = Append(transport, "dtr")
    /\ UNCHANGED <<emitted, win, tasks, serialVars, hexVars, chipVars, flashVars, dfuVars>>

(* stk500v2.py lines 237, 47-49: self.programmer.close() *)
finallyClose ==
    /\ thread.pc = "close"
    /\ IF ~thread.programmer
       THEN /\ thread' = FinallyRaises("AttributeError")
            /\ transport' = transport
       ELSE /\ thread' = [thread EXCEPT !.pc = "clear"]
            /\ transport' = Append(transport, "close")
    /\ UNCHANGED <<emitted, win, tasks, serialVars, hexVars, chipVars, flashVars, dfuVars>>

(* stk500v2.py line 238: self.programmer = None *)
finallyClear ==
    /\ thread.pc = "clear"
    /\ thread' = [thread EXCEPT !.programmer = FALSE, !.pc = "finished"]
    /\ UNCHANGED <<transport, emitted, win, tasks, serialVars, hexVars, chipVars, flashVars,
                   dfuVars>>

(* firmwareInstaller.py lines 446-454 and stk500v2.py lines 253-258:        *)
(* stopInstall calls terminate on a running task whose interruption was     *)
(* not requested; terminate closes the port from the parent's thread.       *)
stopTerminate ==
    /\ thread.pc \notin {"finished", "ended", "killed"}
    /\ ~thread.interruption
    /\ ~thread.terminated
    /\ IF thread.programmer
       THEN /\ thread' = [thread EXCEPT !.interruption = TRUE, !.programmer = FALSE,
                                        !.terminated = TRUE, !.kill = TRUE]
            /\ transport' = Append(transport, "close")
       ELSE /\ thread' = [thread EXCEPT !.terminated = TRUE]
            /\ transport' = transport
    /\ UNCHANGED <<emitted, win, tasks, serialVars, hexVars, chipVars, flashVars, dfuVars>>

InitRun ==
    /\ NoSerial
    /\ NoHex
    /\ NoChip
    /\ NoFlash
    /\ NoDfu
    /\ thread = [kind |-> "avr", parent |-> "window", pc |-> "run", isWork |-> FALSE,
                 programmer |-> FALSE, interruption |-> FALSE, raised |-> "none",
                 terminated |-> FALSE, kill |-> FALSE, step |-> 0]
    /\ transport = <<>>
    /\ emitted = <<>>
    /\ win = <<>>
    /\ tasks = <<>>

NextRun ==
    \/ avrRun
    \/ avrConnect
    \/ runOpen
    \/ runWrite
    \/ runRead
    \/ runProgramChip
    \/ runExcept
    \/ runWait
    \/ stateUpdateError
    \/ finallyIsConnected
    \/ finallyFastReset
    \/ finallyClose
    \/ finallyClear
    \/ threadDone
    \/ stopTerminate
    \/ threadKilled

SpecRun == InitRun /\ [][NextRun]_vars

(* terminate is called in this step *)
Terminates == ~thread.terminated /\ thread'.terminated

(* an exchange has begun: the request is written, the response not read *)
InExchange == thread.pc = "read"

(* C32: cancellation acts between protocol steps only: terminate does not   *)
(* close the port and the thread is not ended while an exchange is under    *)
(* way, and once cancellation was requested no further exchange begins.     *)
C32_CancelledBetweenSteps ==
    [][/\ InExchange => ~(Terminates /\ thread'.interruption) /\ thread'.pc # "killed"
       /\ thread.interruption /\ thread.pc = "write" => thread'.pc # "read"]_vars

(* the port was closed by terminate between the request and its response *)
ExchangeCutByTerminate ==
    /\ InExchange
    /\ thread.terminated
    /\ transport = <<"open", "dtr", "write", "close">>

(* a request was written to the port after terminate had closed it *)
ExchangeBegunAfterTerminate ==
    /\ InExchange
    /\ transport = <<"open", "dtr", "close", "write">>

----------------------------------------------------------------------------
(* Sessions started by the window without a user action.                    *)

(* a worker thread is created in this step; win'.since is "user" when the  *)
(* step is a click of Install                                               *)
TaskStarted == Len(tasks') > Len(tasks)

(* C33: a session is started by the window itself only after a session      *)
(* ended without error or with a portError: once a session has ended with   *)
(* an IspError, a formatError or another exception no session starts        *)
(* before the user has acted, whatever the mode.                            *)
C33_RestartOnlyAfterPortError ==
    [][TaskStarted => win'.since \notin {"IspError", "formatError", "Exception"}]_vars

(* After the first session no session starts before the user has acted     *)
(* when it ended with a formatError or another exception, or with an        *)
(* IspError while Auto Install is off.                                      *)
FirstSessionRestartsOnlyInAutoInstall ==
    [][TaskStarted /\ Len(tasks) = 1
           => /\ win'.since \notin {"formatError", "Exception"}
              /\ win'.since = "IspError" => win.autoCheck]_vars

(* Auto Install is on and the only session so far has ended with IspError:  *)
(* the auto timer runs and the Install button is disabled.                  *)
RetryArmedAfterIspError ==
    /\ win.since = "IspError"
    /\ win.autoCheck
    /\ win.autoTimer
    /\ ~win.installBtn
    /\ Len(tasks) = 1
    /\ win.task = 0

----------------------------------------------------------------------------
(* What recvMessage returns.                                                *)

(* Lines 135-136: the locals of recvMessage when it is called *)
StartLocals == [state |-> "Start", checksum |-> 0, msgSize |-> 0, data |-> <<>>, done |-> FALSE]

(* Lines 137-172: recvMessage with the locals l on the bytes rest followed  *)
(* by silence: the payload it returns, or the IspError of line 143.         *)
RECURSIVE RecvLoop(_, _)
RecvLoop(l, rest) ==
    IF rest = <<>> THEN IspError("Serial read timeout")
    ELSE LET n == RecvStep(l, Head(rest))
         IN  IF n.done THEN Returned(n.data) ELSE RecvLoop(n, Tail(rest))

recvMessage(bytes) == RecvLoop(StartLocals, bytes)

(* the bytes recvMessage has read *)
BytesRead ==
    LET all == stream.garbage \o BuildMessage(stream.seq, stream.payload)
    IN  SubSeq(all, 1, Len(all) - Len(rx))

(* the last n bytes of s *)
Last(s, n) == SubSeq(s, Len(s) - n + 1, Len(s))

(* sequence numbers of frames: the ends of the range, the counter's first   *)
(* value and the two bytes the receiver looks for                           *)
SeqValues == {0, 1, TOKEN, MESSAGE_START, 255}

(* C34: a payload is returned only at the end of a contiguous run 0x1B, a   *)
(* sequence byte, two size bytes (high, low), 0x0E, size payload bytes and  *)
(* a checksum byte that makes the XOR of the whole run 0; the payload       *)
(* returned is those size bytes; and the frames of a payload are taken or   *)
(* not alike whatever their sequence number is.                             *)
C34_ReturnedPayloadIsFramed ==
    /\ pc = "returned" =>
           LET n == Len(ret.value)
               run == Last(BytesRead, n + 6)
           IN  /\ ret.kind = "return"
               /\ Len(BytesRead) >= n + 6
               /\ run[1] = MESSAGE_START
               /\ run[3] * 256 + run[4] = n
               /\ run[5] = TOKEN
               /\ SubSeq(run, 6, n + 5) = ret.value
               /\ XorAll(run) = 0
               /\ msgSize = n
    /\ \A s \in SeqValues :
           recvMessage(BuildMessage(s, stream.payload)).kind
               = recvMessage(BuildMessage(stream.seq, stream.payload)).kind

(* A damaged frame was passed over and the payload of the frame numbered    *)
(* 0x1B that followed it was returned.                                      *)
C34_Witness ==
    /\ pc = "returned"
    /\ stream.seq = MESSAGE_START
    /\ Len(ret.value) = 2
    /\ Len(BytesRead) > Len(ret.value) + 6

(* recvMessage has ended on the frame sendMessage builds, with nothing      *)
(* before it                                                                *)
FrameAloneRead == pc \in {"returned", "raised"} /\ stream.garbage = <<>>

(* C35: framing round-trips: recvMessage, started on the frame sendMessage  *)
(* builds for a payload and a sequence number, returns that payload, the    *)
(* empty payload of a frame of size 0 included.                             *)
C35_FramingRoundTrips == FrameAloneRead => ret = Returned(stream.payload)

(* The frames with a payload of one byte or more round-trip, whatever the   *)
(* sequence number is.                                                      *)
NonEmptyFramesRoundTrip ==
    /\ FrameAloneRead /\ stream.payload # <<>> => ret = Returned(stream.payload)
    /\ stream.payload # <<>> =>
           \A s \in SeqValues : recvMessage(BuildMessage(s, stream.payload))
                                    = Returned(stream.payload)

(* The frame of size 0: its checksum byte was taken as the first byte of    *)
(* the payload, and the read timed out waiting for more.                    *)
EmptyFrameTimesOut ==
    /\ FrameAloneRead
    /\ stream.payload = <<>>
    /\ ret = IspError("Serial read timeout")
    /\ state = "Data"
    /\ data = <<MessageChecksum(Header(stream.seq, <<>>))>>

----------------------------------------------------------------------------
(* write_elements on layouts of every kind: no segment, pages of 1, 2, 3    *)
(* and 4 bytes, and a segment that begins after the element's address.      *)

PageLayouts ==
    Layouts
    \cup {<<[addr |-> FlashBase, last_addr |-> FlashBase + 8, page_size |-> 3]>>,
          <<[addr |-> FlashBase, last_addr |-> FlashBase + 8, page_size |-> 1]>>,
          <<[addr |-> FlashBase + 2, last_addr |-> FlashBase + 9, page_size |-> 2]>>}

MaxTransferSize == 3

(* main (lines 619-634) with the elements of a file *)
DfuPageInputs ==
    {[caller |-> "main", mass_erase |-> m, elements |-> es, layout |-> l, wTransferSize |-> w] :
        m \in BOOLEAN, es \in ElementLists("main", MaxElems), l \in PageLayouts,
        w \in 1..MaxTransferSize}

InitDfuPages ==
    /\ NoSerial
    /\ NoHex
    /\ NoChip
    /\ NoFlash
    /\ dfuIn \in DfuPageInputs
    /\ dfuPc = "start"
    /\ dfuL = DfuLocals
    /\ usb = <<>>
    /\ dfuProgress = <<>>
    /\ dfuRet = [kind |-> "none"]
    /\ dfuFile = <<>>
    /\ dfuParse = <<>>
    /\ layoutStr = <<>>
    /\ layoutSt = <<>>
    /\ NoApp

(* every call returns in the end: a session that can take a step takes one *)
SpecDfuPages == InitDfuPages /\ [][NextDfu]_vars /\ WF_vars(NextDfu)

(* the bytes of element e with the addresses they belong at *)
Placed(e) == [j \in 1..Len(e.data) |-> <<e.addr + j - 1, e.data[j]>>]

(* the bytes of the first n elements, in order *)
RECURSIVE PlacedUpTo(_)
PlacedUpTo(n) == IF n = 0 THEN <<>> ELSE PlacedUpTo(n - 1) \o Placed(dfuIn.elements[n])

(* the bytes that the first k requests of the log have sent, each with the  *)
(* address it went to: the address of the last set_address plus its place   *)
(* in the chunk                                                             *)
RECURSIVE SentUpTo(_)
SentUpTo(k) ==
    IF k = 0 THEN <<>>
    ELSE IF k \in Writes
    THEN SentUpTo(k - 1)
         \o [j \in 1..Len(usb[k].data) |->
                 <<AddressOf(AddressSetBefore(k)) + j - 1, usb[k].data[j]>>]
    ELSE SentUpTo(k - 1)

(* write_elements has returned *)
WriteElementsReturned == dfuPc = "exit_dfu"

(* element number dfuL.elemNo has been written *)
ElementWritten == dfuPc = "write_elements" /\ dfuL.elemNo >= 1

AllSentOnceInPlace ==
    /\ \A k \in Writes : AddressSetBefore(k) # 0
    /\ ElementWritten => SentUpTo(Len(usb)) = PlacedUpTo(dfuL.elemNo)
    /\ WriteElementsReturned => SentUpTo(Len(usb)) = PlacedUpTo(Len(dfuIn.elements))

LastProgress == dfuProgress[Len(dfuProgress)]

(* C36: when write_elements returns every byte of every element has been    *)
(* sent once, byte k to addr + k, in ascending order within the element     *)
(* and element after element, on every layout, with and without mass erase  *)
(* and for every transfer size; the last progress event of each element     *)
(* that has one, which is each element of size 1 or more, is (addr, size,   *)
(* size).  An element of size 0 sends nothing and reports nothing.          *)
C36_SentOnceInPlace ==
    /\ AllSentOnceInPlace
    /\ ElementWritten /\ dfuL.elem_size >= 1 =>
           /\ dfuProgress # <<>>
           /\ LastProgress = <<dfuL.elem_addr, dfuL.elem_size, dfuL.elem_size>>
    /\ ElementWritten /\ dfuL.elemNo = 1 /\ dfuL.elem_size = 0 => dfuProgress = <<>>

(* Two elements of 3 bytes were written through pages of 3 bytes with       *)
(* wTransferSize 2, the second from an address in the middle of a page.     *)
C36_Witness ==
    /\ WriteElementsReturned
    /\ ~dfuIn.mass_erase
    /\ dfuIn.wTransferSize = 2
    /\ Len(dfuIn.layout) = 1
    /\ dfuIn.layout[1].page_size = 3
    /\ Len(dfuIn.elements) = 2
    /\ dfuIn.elements[2].addr = FlashBase + 1
    /\ \A n \in 1..2 : dfuIn.elements[n].size = 3 /\ Len(dfuIn.elements[n].data) = 3

(* an element of size 0 was written and nothing was reported *)
EmptyElementWithoutProgress ==
    /\ ElementWritten
    /\ dfuL.elem_size = 0
    /\ dfuProgress = <<>>

----------------------------------------------------------------------------
(* Termination of write_elements and write_memory.                          *)

(* the session has ended: main or run has returned, or an exception left it *)
SessionEnded == dfuPc \in {"done", "raised"}

(* one iteration of the loop of write_memory ends (lines 253-254) *)
ChunkWritten == dfuPc = "count" /\ dfuPc' = "write_memory"

(* one iteration of the while loop of write_elements ends (lines 539-544) *)
PageWritten == dfuPc = "write_memory" /\ dfuPc' = "while"

PageWrittenWithoutData ==
    /\ dfuPc = "write_memory"
    /\ dfuL.buf = <<>>
    /\ dfuL.size >= 1
    /\ dfuL.elem_size = Len(dfuIn.elements[dfuL.elemNo].data) + 1

----------------------------------------------------------------------------
(* The worker that has emitted an error (stk500v2.py lines 228-231,         *)
(* pydfu.py lines 961-963) and the window's stateUpdate.                    *)

(* The timers fire and a thread that can go on does: the timeouts of lines  *)
(* 73 and 78 and the end of a thread's run are not put off forever.         *)
SpecWindowFair ==
    /\ InitWindow
    /\ [][NextWindow]_vars
    /\ WF_vars(timerTimeout)
    /\ WF_vars(taskFinished)

(* thread i has emitted an error and is in `while self.isWork` *)
Spinning(i) == i <= Len(tasks) /\ tasks[i].state = "waiting" /\ tasks[i].isWork

(* thread i has ended *)
HasEnded(i) == i <= Len(tasks) /\ tasks[i].state = "finished"

(* C38: a worker that has emitted an error and waits in `while self.isWork` *)
(* has isWork set to False by the window's stateUpdate, whatever the timers *)
(* and Stop clicks did to the window's task reference; it leaves the loop   *)
(* and ends.                                                                *)
C38_WorkerLeavesLoop == \A i \in 1..MaxTasks : Spinning(i) ~> HasEnded(i)

(* The step of stateUpdate that answers the error of thread i clears isWork *)
(* of thread i.                                                             *)
StateUpdateReleasesEmitter ==
    [][\A i \in 1..Len(tasks) :
           tasks[i].state = "running" /\ tasks'[i].state = "waiting" => ~tasks'[i].isWork]_vars

(* While no second thread was started, no thread is left in the loop. *)
SingleWorkerIsReleased == Len(tasks) = 1 => ~Spinning(1)

(* Thread 1 waits in the loop and the window has no reference to it: a      *)
(* timer tick started thread 2 while thread 1 was running, and stateUpdate  *)
(* answered the error of thread 1 on thread 2.                              *)
WorkerLeftSpinning ==
    /\ Len(tasks) = 2
    /\ Spinning(1)
    /\ ~tasks[2].isWork
    /\ win.task = 0

----------------------------------------------------------------------------
(* terminate against the worker's run: the programmer reference and the     *)
(* port, on the log of the calls made on the port.                          *)

(* the worker has read self.programmer when it was None *)
NoneProgrammerUsed == thread.raised = "AttributeError"

(* calls i and j of the log close the port and nothing opens it between *)
ClosedAgain(log, i, j) ==
    /\ i < j
    /\ log[i] = "close"
    /\ log[j] = "close"
    /\ \A k \in (i + 1)..(j - 1) : log[k] # "open"

(* call j of the log reads, writes or sets a line of a port that an earlier *)
(* call has closed                                                          *)
UsedAfterClose(log, j) ==
    /\ log[j] \in {"write", "read", "dtr"}
    /\ \E i \in 1..(j - 1) : log[i] = "close"
    /\ ~IsOpen(SubSeq(log, 1, j - 1))

TerminateIsSafe ==
    /\ ~NoneProgrammerUsed
    /\ \A i, j \in 1..Len(transport) : ~ClosedAgain(transport, i, j)
    /\ \A j \in 1..Len(transport) : ~UsedAfterClose(transport, j)

(* C39: however terminate, called from the parent, falls between the steps  *)
(* of the worker's run and of its finally block, the worker never uses a    *)
(* programmer reference that is None, and the port is never closed twice    *)
(* nor used for I/O after it was closed.                                    *)
C39_TerminateIsSafe == thread.kind = "avr" /\ thread.parent = "window" => TerminateIsSafe

(* Without a call of terminate the run is safe. *)
SafeWithoutTerminate == ~thread.terminated => TerminateIsSafe

(* terminate came while the worker waited for a response: sendMessage       *)
(* raised, and the finally block read self.programmer, which was None.      *)
FinallyUsedNoneProgrammer ==
    /\ thread.terminated
    /\ thread.pc = "finished"
    /\ thread.raised = "AttributeError"
    /\ transport = <<"open", "dtr", "write", "close">>

(* terminate came between close (line 237) and self.programmer = None (line *)
(* 238): the port was closed by the worker and again by the parent.         *)
PortClosedTwice ==
    /\ thread.terminated
    /\ Len(transport) >= 2
    /\ transport[Len(transport)] = "close"
    /\ transport[Len(transport) - 1] = "close"

(* terminate came before sendMessage wrote its request: the write went to   *)
(* the closed port.                                                         *)
WrittenAfterClose ==
    /\ thread.terminated
    /\ Len(transport) >= 2
    /\ transport[Len(transport)] = "write"
    /\ transport[Len(transport) - 1] = "close"

====
